---- MODULE Spec2Model ----
(***************************************************************************)
(* Rockport: the per-tick vehicle dynamics (carPhysics.js, class Car) and  *)
(* the performance calibration controller and store (main.js, class        *)
(* CarVerificationManager).                                                *)
(*                                                                         *)
(* Numbers.  JavaScript doubles are modelled in fixed point:               *)
(*   dimensionless (throttle, brake, grip, ratios, sin/cos)  1/10^4  (U)   *)
(*   dragCoefficient, drivetrainEfficiency, rollingResistanceCoeff 1/10^6  *)
(*   gear ratios, final drive, frontal area                  1/100         *)
(*   lengths mm, position mm, velocity um/s, acceleration mm/s^2           *)
(*   angles urad, angular velocity urad/s, force N, torque Nm, mass kg     *)
(*   dt is 1/hz seconds; wall-clock time is in ms.                         *)
(* A JavaScript null/undefined is the empty set, a present value v is {v}. *)
(***************************************************************************)
EXTENDS Integers, Sequences, FiniteSets, TLC

U == 10^4
M6 == 10^6
PI == 3141593
TWO_PI == 2 * PI

None == {}
Some(x) == {x}
The(s) == CHOOSE x \in s : TRUE
IsNone(s) == s = {}
OrElse(s, d) == IF s = {} THEN d ELSE The(s)

Abs(x) == IF x < 0 THEN -x ELSE x
Min(a, b) == IF a < b THEN a ELSE b
Max(a, b) == IF a > b THEN a ELSE b

\* Math.sign / sign() of carPhysics.js
Sign(x) == IF x > 0 THEN 1 ELSE IF x < 0 THEN -1 ELSE 0

\* clamp(value, min, max) == Math.max(min, Math.min(max, value))
clamp(value, lo, hi) == Max(lo, Min(hi, value))

\* a / b for b > 0, rounded to the nearest unit, symmetric in the sign of a
Quot(a, b) == IF a >= 0 THEN (a + b \div 2) \div b ELSE -((b \div 2 - a) \div b)

\* a / b for b > 0, truncated toward zero
TDiv(a, b) == IF a >= 0 THEN a \div b ELSE -((-a) \div b)

\* a * b / c for c > 0 without forming a * b (needs c * |b| below 2^31)
MulDiv(a, b, c) ==
  LET s == Sign(a) * Sign(b)
      x == Abs(a)
      y == Abs(b)
  IN  s * ((x \div c) * y + Quot((x % c) * y, c))

\* JavaScript a % b for b > 0: the result has the sign of the dividend
JsRem(a, b) == IF a >= 0 THEN a % b ELSE -((-a) % b)

RECURSIVE SqrtIter(_, _, _)
SqrtIter(n, lo, hi) ==
  IF lo >= hi THEN lo
  ELSE LET mid == (lo + hi + 1) \div 2
       IN  IF mid * mid <= n THEN SqrtIter(n, mid, hi) ELSE SqrtIter(n, lo, mid - 1)

\* floor(sqrt(n)) for 0 <= n < 2^31
ISqrt(n) == IF n <= 0 THEN 0 ELSE SqrtIter(n, 0, 46340)

\* Math.hypot(x, y); large arguments are scaled down before squaring
Hypot(x, y) ==
  LET m == Max(Abs(x), Abs(y))
      k == m \div 30000 + 1
  IN  IF m = 0 THEN 0
      ELSE IF k = 1 THEN ISqrt(x * x + y * y)
      ELSE k * ISqrt(TDiv(x, k) * TDiv(x, k) + TDiv(y, k) * TDiv(y, k))

\* sqrt of a U-scaled number, U-scaled
SqrtU(r) == ISqrt(r * U)

\* an angle reduced to (-PI, PI]
WrapAngle(a) == LET m == a % TWO_PI IN IF m > PI THEN m - TWO_PI ELSE m

\* cos on [0, PI/2] (urad), U-scaled: the Taylor polynomial to x^8
CosQ(x) ==
  LET xu == Quot(x, 100)
      x2 == Quot(xu * xu, U)
      t4 == U - Quot(x2, 56)
      t3 == U - Quot(x2 * t4, 30 * U)
      t2 == U - Quot(x2 * t3, 12 * U)
  IN  U - Quot(x2 * t2, 2 * U)

\* sin on [0, PI/2] (urad), U-scaled: the Taylor polynomial to x^9
SinQ(x) ==
  LET xu == Quot(x, 100)
      x2 == Quot(xu * xu, U)
      t4 == U - Quot(x2, 72)
      t3 == U - Quot(x2 * t4, 42 * U)
      t2 == U - Quot(x2 * t3, 20 * U)
      t1 == U - Quot(x2 * t2, 6 * U)
  IN  Quot(xu * t1, U)

\* Math.cos, U-scaled
Cos(a) ==
  LET x == Abs(WrapAngle(a))
  IN  IF 2 * x > PI THEN -CosQ(PI - x) ELSE CosQ(x)

\* Math.sin, U-scaled
Sin(a) ==
  LET w == WrapAngle(a)
      x == Abs(w)
      s == IF 2 * x > PI THEN SinQ(PI - x) ELSE SinQ(x)
  IN  IF w < 0 THEN -s ELSE s

\* atan(t) for a U-scaled |t| <= 1, in urad:
\* (PI/4) t - t (|t| - 1) (0.2447 + 0.0663 |t|)
AtanUnit(t) ==
  LET a == Abs(t)
      c == 2447 + Quot(663 * a, U)
      corr == Quot(Quot(a * (U - a), U) * c, U)
      mag == Quot(a * 7854, 100) + corr * 100
  IN  Sign(t) * mag

\* Math.atan2(y, x) for x > 0, in urad
Atan2(y, x) ==
  LET k == Max(Abs(x), Abs(y)) \div 100000 + 1
      ys == TDiv(y, k)
      xs == Max(1, TDiv(x, k))
  IN  IF Abs(ys) <= xs THEN AtanUnit(Quot(ys * U, xs))
      ELSE Sign(ys) * ((PI \div 2) - AtanUnit(Quot(xs * U, Abs(ys))))

\* ln 2, U-scaled
LN2 == 69314718 \div 10000

RECURSIVE LnReduce(_, _)
\* <<m, k>> with x = m * 2^k and U <= m < 2U
LnReduce(x, k) ==
  IF x >= 2 * U THEN LnReduce(Quot(x, 2), k + 1)
  ELSE IF x < U THEN LnReduce(x * 2, k - 1)
  ELSE <<x, k>>

\* Math.log of a U-scaled x > 0, U-scaled: ln m = 2 atanh((m - 1) / (m + 1))
Ln(x) ==
  LET mk == LnReduce(x, 0)
      m == mk[1]
      z == Quot((m - U) * U, m + U)
      z2 == Quot(z * z, U)
      t3 == Quot(U, 7)
      t2 == Quot(U, 5) + Quot(z2 * t3, U)
      t1 == Quot(U, 3) + Quot(z2 * t2, U)
      t0 == U + Quot(z2 * t1, U)
  IN  mk[2] * LN2 + Quot(2 * z * t0, U)

RECURSIVE Pow2Scale(_, _)
\* v * 2^k
Pow2Scale(v, k) ==
  IF k = 0 THEN v
  ELSE IF k > 0 THEN Pow2Scale(v * 2, k - 1)
  ELSE Pow2Scale(Quot(v, 2), k + 1)

\* Math.exp of a U-scaled y, U-scaled: y = k ln 2 + r, exp(r) by its Taylor polynomial
Exp(y) ==
  LET k == y \div LN2
      r == y % LN2
      t6 == U + Quot(r, 7)
      t5 == U + Quot(r * t6, 6 * U)
      t4 == U + Quot(r * t5, 5 * U)
      t3 == U + Quot(r * t4, 4 * U)
      t2 == U + Quot(r * t3, 3 * U)
      t1 == U + Quot(r * t2, 2 * U)
      t0 == U + Quot(r * t1, U)
  IN  Pow2Scale(t0, k)

\* Math.pow(x, e) for U-scaled x >= 0 and e, U-scaled
Pow(x, e) == IF x <= 0 THEN 0 ELSE Exp(Quot(e * Ln(x), U))

(***************************************************************************)
(* carPhysics.js                                                           *)
(***************************************************************************)
G == 9810
AIR_DENSITY == 1225

\* a driveType that is not a JavaScript string (a number, say)
NonStringDriveType == "<not a string>"

\* String.prototype.toUpperCase on the drive types in use
ToUpperCase(s) ==
  CASE s = "rwd" -> "RWD"
    [] s = "fwd" -> "FWD"
    [] s = "awd" -> "AWD"
    [] OTHER -> s

defaultCarConfig ==
  [ massKg |-> 1450,
    driveType |-> "RWD",
    gearRatios |-> <<0, 354, 212, 149, 121, 100, 84>>,
    finalDriveRatio |-> 342,
    horsepower |-> 420,
    peakTorqueNm |-> 530,
    brakeHorsepower |-> 360,
    dragCoefficient |-> 320000,
    downforceCoefficient |-> 11000,
    frontalAreaM2 |-> 220,
    wheelRadiusM |-> 320,
    tireGrips |-> <<10500, 10500, 11000, 11000>>,
    tireLateralGrips |-> None,
    tireLateralGripFactor |-> 11200,
    brakeTorquePerWheelNm |-> <<4200, 4200, 3200, 3200>>,
    brakeBiasFront |-> 6000,
    wheelbaseM |-> 2800,
    cgHeightM |-> 550,
    trackWidthM |-> 1550,
    frontWeightDistribution |-> 5200,
    drivetrainEfficiency |-> 900000,
    rollingResistanceCoeff |-> 15000,
    revLimiterRpm |-> None ]

\* new Tire(name, gripCoefficient)
Tire(gripCoefficient) ==
  [ gripCoefficient |-> gripCoefficient,
    hasTraction |-> TRUE,
    normalLoad |-> 0,
    combinedForce |-> <<0, 0>> ]

\* the constructor's lateral grip coefficients
LateralGripCoeffs(config) ==
  LET long == config.tireGrips
      lateralFactor == Max(10200, config.tireLateralGripFactor)
      lat == config.tireLateralGrips
  IN  IF ~IsNone(lat) /\ Len(The(lat)) >= 4 THEN SubSeq(The(lat), 1, 4)
      ELSE IF ~IsNone(lat) /\ Len(The(lat)) > 0
        THEN [i \in 1..Len(long) |-> The(lat)[((i - 1) % Len(The(lat))) + 1]]
      ELSE [i \in 1..Len(long) |-> Quot(long[i] * lateralFactor, U)]

\* the constructor's brake torque fallback
FallbackBrakeTorque(config) ==
  LET totalForce == Quot(config.brakeHorsepower * 7457, 300)
      frontForce == Quot(totalForce * config.brakeBiasFront, U)
      rearForce == totalForce - frontForce
      frontTorque == Quot(frontForce * config.wheelRadiusM, 2000)
      rearTorque == Quot(rearForce * config.wheelRadiusM, 2000)
  IN  <<frontTorque, frontTorque, rearTorque, rearTorque>>

\* new Car(config, options) throws when driveType has no toUpperCase
CarConstructorThrows(config) == config.driveType = NonStringDriveType

\* new Car(config, { position, heading, manualMode })
NewCar(config, manualMode) ==
  LET peakRpm == Max(2500, Quot(config.horsepower * 7121, config.peakTorqueNm))
      redline0 == Quot(peakRpm * 115, 100)
      upshift0 == Quot(redline0 * 95, 100)
      downshift0 == Quot(peakRpm * 60, 100)
      limiter == OrElse(config.revLimiterRpm, 7000)
      redline1 == IF limiter > 0 THEN Min(redline0, Quot(limiter * 995, 1000)) ELSE redline0
      upshift1 == IF limiter > 0 THEN Min(upshift0, Quot(limiter * 97, 100)) ELSE upshift0
      downshift1 == IF limiter > 0 /\ downshift0 >= upshift1
                    THEN Quot(upshift1 * 55, 100) ELSE downshift0
      drive == ToUpperCase(config.driveType)
      firstDriveIndex == IF Len(config.gearRatios) > 1 THEN 1 ELSE 0
      lf == Quot(config.wheelbaseM * config.frontWeightDistribution, U)
      bt == config.brakeTorquePerWheelNm
  IN  [ config |-> config,
        position |-> <<0, 0>>,
        velocity |-> <<0, 0>>,
        heading |-> 0,
        angularVelocity |-> 0,
        steerAngle |-> 0,
        longitudinalGripCoeffs |-> config.tireGrips,
        lateralGripCoeffs |-> LateralGripCoeffs(config),
        tires |-> [i \in 1..4 |-> Tire(config.tireGrips[i])],
        gearIndex |-> Min(1, Len(config.gearRatios) - 1),
        idleRpm |-> 900,
        peakRpm |-> peakRpm,
        redlineRpm |-> redline1,
        upshiftRpm |-> upshift1,
        downshiftRpm |-> downshift1,
        engineRpm |-> 900,
        throttle |-> 0,
        brake |-> 0,
        driveSplitFront |-> IF drive = "FWD" THEN U ELSE IF drive = "AWD" THEN 4500 ELSE 0,
        driveSplitRear |-> IF drive = "FWD" THEN 0 ELSE IF drive = "AWD" THEN 5500 ELSE U,
        lf |-> lf,
        lr |-> config.wheelbaseM - lf,
        inertia |-> Quot(Quot(config.wheelbaseM * config.wheelbaseM
                               + config.trackWidthM * config.trackWidthM, 1000)
                         * config.massKg, 12000),
        lastLongitudinalAccel |-> 0,
        lastLateralAccel |-> 0,
        reverseMode |-> FALSE,
        manualMode |-> manualMode,
        reverseGearRatio |-> Abs(config.gearRatios[firstDriveIndex + 1]),
        revLimiterRpm |-> limiter,
        revLimiterActive |-> FALSE,
        brakeTorquePerWheelNm |-> IF Len(bt) >= 4 THEN SubSeq(bt, 1, 4)
                                  ELSE FallbackBrakeTorque(config) ]

\* resetState({ position: {x: 0, y: 0}, heading })
resetState(car, heading) ==
  [car EXCEPT !.position = <<0, 0>>, !.heading = heading, !.velocity = <<0, 0>>,
              !.angularVelocity = 0, !.engineRpm = car.idleRpm, !.throttle = 0,
              !.brake = 0, !.reverseMode = FALSE]

\* a variant of shiftUp without the upper bound
shiftUp_m(car) ==
  IF ~car.manualMode THEN [car |-> car, result |-> FALSE]
  ELSE [car |-> [car EXCEPT !.gearIndex = @ + 1, !.reverseMode = car.gearIndex + 1 = -1],
        result |-> TRUE]

\* Car.shiftUp(): the car afterwards and the value returned
shiftUp(car) ==
  LET maxGear == Len(car.config.gearRatios) - 1
      nextGear == Min(maxGear, car.gearIndex + 1)
  IN  IF ~car.manualMode THEN [car |-> car, result |-> FALSE]
      ELSE IF nextGear # car.gearIndex
        THEN [car |-> [car EXCEPT !.gearIndex = nextGear, !.reverseMode = nextGear = -1],
              result |-> TRUE]
      ELSE [car |-> car, result |-> FALSE]

\* Car.shiftDown(): the car afterwards and the value returned
shiftDown(car) ==
  LET nextGear == Max(-1, car.gearIndex - 1)
  IN  IF ~car.manualMode THEN [car |-> car, result |-> FALSE]
      ELSE IF nextGear # car.gearIndex
        THEN [car |-> [car EXCEPT !.gearIndex = nextGear, !.reverseMode = nextGear = -1],
              result |-> TRUE]
      ELSE [car |-> car, result |-> FALSE]

\* Car.setManualMode(enabled)
setManualMode(car, enabled) ==
  IF ~enabled
    THEN [car EXCEPT !.manualMode = FALSE,
                     !.gearIndex = IF car.gearIndex <= 0
                                     THEN Min(1, Len(car.config.gearRatios) - 1)
                                     ELSE car.gearIndex,
                     !.reverseMode = FALSE]
    ELSE [car EXCEPT !.manualMode = TRUE, !.reverseMode = (car.gearIndex = -1)]

\* Vehicle.setTransmissionMode(mode) as it leaves vehicle.physics
setTransmissionMode(car, mode) ==
  LET normalized == IF mode = "manual" THEN "manual" ELSE "auto"
      physics == setManualMode(car, normalized = "manual")
  IN  IF normalized = "auto"
        THEN [physics EXCEPT !.gearIndex = IF physics.gearIndex <= 0
                                             THEN Min(1, Len(physics.config.gearRatios) - 1)
                                             ELSE physics.gearIndex,
                             !.reverseMode = FALSE]
        ELSE physics

\* Car.restoreState(state): a field that is missing or not a finite number is
\* None; the saved gearIndex is an integer, which Math.trunc leaves as it is
restoreState(car, state) ==
  [car EXCEPT
     !.position = OrElse(state.position, @),
     !.heading = OrElse(state.heading, @),
     !.velocity = OrElse(state.velocity, @),
     !.angularVelocity = OrElse(state.angularVelocity, @),
     !.steerAngle = OrElse(state.steerAngle, @),
     !.engineRpm = IF IsNone(state.engineRpm) THEN car.idleRpm
                   ELSE clamp(The(state.engineRpm), car.idleRpm,
                              Quot(car.revLimiterRpm * 105, 100)),
     !.throttle = IF IsNone(state.throttle) THEN 0 ELSE clamp(The(state.throttle), -U, U),
     !.brake = IF IsNone(state.brake) THEN 0 ELSE clamp(The(state.brake), 0, U),
     !.gearIndex = OrElse(state.gearIndex, @),
     !.reverseMode = state.reverseMode,
     !.manualMode = state.manualMode,
     !.lastLongitudinalAccel = OrElse(state.lastLongitudinalAccel, @),
     !.lastLateralAccel = OrElse(state.lastLateralAccel, @)]

\* Vehicle.restoreState(state) as it leaves vehicle.physics, for a state whose
\* body is missing: the physics state is restored, then manualMode follows
\* state.transmissionMode when that is a string
vehicleRestoreState(car, state, transmissionMode) ==
  LET physics == restoreState(car, state)
  IN  IF IsNone(transmissionMode) THEN physics
      ELSE [physics EXCEPT !.manualMode = (The(transmissionMode) = "manual")]

\* config.gearRatios[index]; an index outside the array reads undefined, which
\* every use compares with "> 0" (false, as for 0)
GearRatioAt(config, index) ==
  IF index + 1 \in DOMAIN config.gearRatios THEN config.gearRatios[index + 1] ELSE 0

forwardVector(car) == <<Cos(car.heading), Sin(car.heading)>>
rightVector(car) == <<-Sin(car.heading), Cos(car.heading)>>

\* dot(velocity, unit): um/s against a U-scaled direction
DotU(v, d) == MulDiv(v[1], d[1], U) + MulDiv(v[2], d[2], U)

getSpeedMetersPerSecond(car) == Hypot(car.velocity[1], car.velocity[2])

\* car.getSpeedMetersPerSecond() * 3.6, in 1/100 km/h
SpeedKph(car) == MulDiv(getSpeedMetersPerSecond(car), 36, 100000)

\* speed (um/s) in mph, 1/1000: speed * 2.237
SpeedMph(speed) == MulDiv(speed \div 1000, 2237, 1000)

computeAeroForces(car, speed, backwards) ==
  LET sc == speed \div 10000
      v2 == sc * sc
      cdA == Quot(car.config.dragCoefficient * (IF backwards THEN 2 ELSE 1)
                    * car.config.frontalAreaM2, 10000)
      kDrag == Quot(Quot(cdA * AIR_DENSITY, 1000) * 5, 10)
      downforceScale == clamp(Quot(SpeedMph(speed), 4), 0, U)
      cdownA == Quot(car.config.downforceCoefficient * car.config.frontalAreaM2, 100)
      kDown == Quot(Quot(cdownA * AIR_DENSITY, 1000) * 5, 10)
  IN  [ drag |-> Quot(MulDiv(v2, kDrag, U), 10000),
        downforce |-> MulDiv(Quot(MulDiv(v2, kDown, U), 10000), downforceScale, U) ]

\* clamp(dt * rate, 0, 1), U-scaled, for dt = 1/hz
RateStep(rate, hz) == clamp(Quot(rate * U, hz), 0, U)

\* engine rpm at a wheel speed (um/s) through a gear ratio
RpmAtSpeed(car, speedAbs, gearRatio) ==
  LET wheelAngularSpeed == speedAbs \div car.config.wheelRadiusM
      engine == MulDiv(MulDiv(wheelAngularSpeed, gearRatio, 100),
                       car.config.finalDriveRatio, 100)
  IN  Quot(Quot(Abs(engine), 100) * 9549, 10000)

\* an automatic gearbox that drops a gear whenever the revs are low
automaticShift_m(car, gearIndex, engineRpm, throttle) ==
  IF engineRpm > car.upshiftRpm /\ gearIndex < Len(car.config.gearRatios) - 1
    THEN gearIndex + 1
  ELSE IF engineRpm < car.downshiftRpm THEN gearIndex - 1
  ELSE gearIndex

\* the gear after the automatic shift at the end of updatePowertrain
automaticShift(car, gearIndex, engineRpm, throttle) ==
  IF engineRpm > car.upshiftRpm /\ gearIndex < Len(car.config.gearRatios) - 1
    THEN gearIndex + 1
  ELSE IF engineRpm < car.downshiftRpm /\ gearIndex > 1 /\ throttle < 8000
    THEN gearIndex - 1
  ELSE gearIndex

updatePowertrain(car, throttleInput, vLong, hz) ==
  LET target == clamp(throttleInput, -U, U)
      throttle1 == clamp(car.throttle + Quot((target - car.throttle) * RateStep(4, hz), U),
                         -U, U)
      speedAbs == Abs(vLong)
      leaveReverse == ~car.manualMode /\ car.reverseMode
                      /\ throttle1 > 1000 /\ speedAbs < 600000
      enterReverse == ~car.manualMode /\ ~car.reverseMode
                      /\ throttle1 < -1000 /\ speedAbs < 600000
      reverseMode == IF car.manualMode THEN car.gearIndex = -1
                     ELSE IF leaveReverse THEN FALSE
                     ELSE IF enterReverse THEN TRUE
                     ELSE car.reverseMode
      throttle2 == IF leaveReverse THEN clamp(throttle1, 0, U) ELSE throttle1
      gear1 == IF enterReverse /\ car.gearIndex < 1 THEN 1 ELSE car.gearIndex
      forwardGearIndex == Max(0, gear1)
      effectiveGearRatio == IF reverseMode THEN car.reverseGearRatio
                            ELSE GearRatioAt(car.config, forwardGearIndex)
      rpm1 == IF effectiveGearRatio > 0 /\ speedAbs > 100000
              THEN Max(car.idleRpm, RpmAtSpeed(car, speedAbs, effectiveGearRatio))
              ELSE Max(Quot(car.engineRpm * 98, 100), car.idleRpm)
      limited == rpm1 > car.revLimiterRpm
      rpm2 == IF limited THEN car.revLimiterRpm ELSE rpm1
      throttle3 == IF limited /\ Abs(throttle2) > 7000
                   THEN (IF throttle2 >= 0 THEN 1 ELSE -1) * Quot(Abs(throttle2) * 6, 10)
                   ELSE throttle2
      automatic == ~car.manualMode /\ ~reverseMode
      gear2 == IF automatic THEN automaticShift(car, gear1, rpm2, throttle3) ELSE gear1
  IN  [car EXCEPT !.throttle = throttle3, !.reverseMode = reverseMode,
                  !.gearIndex = gear2, !.engineRpm = rpm2,
                  !.revLimiterActive = limited]

\* engine torque (Nm) at an rpm
torqueAtRpm(car, rpm) ==
  LET cfg == car.config
      limiterRpm == car.revLimiterRpm
      idle == car.idleRpm
      peak == car.peakRpm
      effectiveRpm == clamp(rpm, idle, limiterRpm + 600)
      ratio == clamp(Quot((effectiveRpm - idle) * U, Max(1, peak - idle)), 0, U)
      shaped == Quot(ratio * SqrtU(SqrtU(ratio)), U)
      torqueFactor == 6500 + Quot(3500 * shaped, U)
      torqueFromHp == Quot(cfg.horsepower * 5252, Max(effectiveRpm, 1))
      minTorque == Quot(cfg.peakTorqueNm * 45, 100)
      overshoot == clamp(Quot((effectiveRpm - limiterRpm) * U, 600), 0, U)
  IN  IF effectiveRpm <= peak
        THEN Quot(cfg.peakTorqueNm * clamp(torqueFactor, 4500, 10500), U)
      ELSE IF effectiveRpm <= limiterRpm
        THEN clamp(torqueFromHp, minTorque, cfg.peakTorqueNm)
      ELSE Quot(cfg.peakTorqueNm * clamp(Quot(1200 * (U - overshoot), U), 500, 1200), U)

\* the brake member after smoothing toward brakeInput
SmoothedBrake(car, brakeInput, hz) ==
  clamp(car.brake + Quot((brakeInput - car.brake) * RateStep(6, hz), U), 0, U)

\* returns { driveForce, brakeForces } and the car with its brake member updated
computeLongitudinalForces(car, brakeInput, hz, vLong) ==
  LET brake == SmoothedBrake(car, brakeInput, hz)
      gearRatio == IF car.reverseMode THEN car.reverseGearRatio
                   ELSE GearRatioAt(car.config, Max(0, car.gearIndex))
      throttleMagnitude == IF car.reverseMode THEN Abs(car.throttle)
                           ELSE Max(car.throttle, 0)
      \* torque, U-scaled Nm
      torque == MulDiv(torqueAtRpm(car, car.engineRpm) * throttleMagnitude,
                       car.config.drivetrainEfficiency \div 100, U)
      wheelTorque == MulDiv(MulDiv(torque, gearRatio, 100),
                            car.config.finalDriveRatio, 100)
      baseForce == Quot(wheelTorque, car.config.wheelRadiusM * 10)
      driveForce0 == IF gearRatio > 0 /\ torque > 0
                     THEN (IF car.reverseMode THEN -baseForce ELSE baseForce)
                     ELSE 0
      driveForce == IF car.revLimiterActive /\ Abs(driveForce0) > 0
                    THEN Quot(driveForce0 * 15, 100) ELSE driveForce0
  IN  [ car |-> [car EXCEPT !.brake = brake],
        driveForce |-> driveForce,
        brakeForces |-> [i \in 1..4 |->
           Quot(car.brakeTorquePerWheelNm[i] * brake, car.config.wheelRadiusM * 10)] ]

\* the tire loop of update: one wheel's saturated force
\* [fLong, fLat, hasTraction] from the requested force, the normal load and the
\* front wheels' lateral grip bonus
SaturateTire(car, i, fLong, fLat, normal, frontGripBonus) ==
  LET longitudinalCapBase == Max(0, MulDiv(normal, car.longitudinalGripCoeffs[i], U))
      lateralCapBase == Max(0, MulDiv(normal, car.lateralGripCoeffs[i], U))
      latMultiplier == IF i <= 2 THEN U + Max(0, frontGripBonus) ELSE U
      longitudinalCap == longitudinalCapBase
      lateralCap == MulDiv(lateralCapBase, latMultiplier, U)
      \* |fLong| / cap and |fLat| / cap, U-scaled; the squares are summed in Hypot
      longRatio == IF longitudinalCap > 0 THEN Quot(Abs(fLong) * U, longitudinalCap) ELSE 0
      latRatio == IF lateralCap > 0 THEN Quot(Abs(fLat) * U, lateralCap) ELSE 0
      loadRatio == Hypot(longRatio, latRatio)
      slides == loadRatio > U /\ (longitudinalCap > 0 \/ lateralCap > 0)
  IN  [ fLong |-> IF slides THEN Quot(fLong * U, loadRatio) ELSE fLong,
        fLat |-> IF slides THEN Quot(fLat * U, loadRatio) ELSE fLat,
        hasTraction |-> ~slides ]

\* normalize(vector), U-scaled
normalize(v) ==
  LET len == Hypot(v[1], v[2])
      k == len \div 100000 + 1
  IN  IF len = 0 THEN <<0, 0>>
      ELSE <<Quot(TDiv(v[1], k) * U, Max(1, len \div k)),
             Quot(TDiv(v[2], k) * U, Max(1, len \div k))>>

\* update, lines 477-482: the body frame and the velocity in it
Kinematics(car) ==
  [ forward |-> forwardVector(car),
    right |-> rightVector(car),
    vLong |-> DotU(car.velocity, forwardVector(car)),
    vLat |-> DotU(car.velocity, rightVector(car)),
    speed |-> Hypot(car.velocity[1], car.velocity[2]) ]

\* update, lines 486-493: the steer angle after this tick
SteerStep(car, speed, steerInput, hz) ==
  LET reduction == clamp(SpeedMph(speed) - 25000, 0, 160000)
      speedFactor == U - clamp(Quot(Pow(reduction * 10, 12000), 200), 0, 9000)
      targetSteer == MulDiv(MulDiv(PI \div 6, speedFactor, U), clamp(steerInput, -U, U), U)
  IN  car.steerAngle + MulDiv(targetSteer - car.steerAngle, RateStep(5, hz), U)

\* update, line 499
Weight(config) == Quot(config.massKg * G, 1000)

\* update, lines 500-511: <<frontAxleLoad, rearAxleLoad>>
AxleLoads(car, downforce) ==
  LET cfg == car.config
      frontStatic == MulDiv(Weight(cfg), cfg.frontWeightDistribution, U)
      downforceFront == MulDiv(downforce, cfg.frontWeightDistribution, U)
      longitudinalTransfer ==
        Quot(MulDiv(cfg.massKg * car.lastLongitudinalAccel, cfg.cgHeightM,
                    Max(100, cfg.wheelbaseM)), 1000)
  IN  << frontStatic + downforceFront - longitudinalTransfer,
         (Weight(cfg) - frontStatic) + (downforce - downforceFront) + longitudinalTransfer >>

\* update, lines 513-518
LateralBias(car) ==
  clamp(Quot(car.lastLateralAccel * car.config.cgHeightM,
             Quot(G * Max(100, car.config.trackWidthM), U)), -4500, 4500)

\* x * 0.5 * (1 + bias) on the left wheel and x * 0.5 * (1 - bias) on the right
SplitLeft(x, bias) == MulDiv(x, U + bias, 2 * U)
SplitRight(x, bias) == MulDiv(x, U - bias, 2 * U)

\* update, lines 520-525
TireNormalsOf(axle, bias) ==
  << Max(0, SplitLeft(axle[1], bias)), Max(0, SplitRight(axle[1], bias)),
     Max(0, SplitLeft(axle[2], bias)), Max(0, SplitRight(axle[2], bias)) >>

\* update, lines 527-542
FrontGripBonus(car, k, steerAngle) ==
  LET momentumDir == normalize(car.velocity)
      frontAlignment ==
        IF k.speed > 500000
        THEN clamp(Quot(Cos(car.heading + steerAngle) * momentumDir[1]
                        + Sin(car.heading + steerAngle) * momentumDir[2], U), 0, U)
        ELSE 0
      brakingForward == car.brake > 500 /\ k.vLong > 200000
  IN  Quot(frontAlignment * 8, 10)
      + (IF brakingForward THEN Quot(car.brake * 55, 100) ELSE 1000)

\* update, lines 544-555: <<slipAngleFront, slipAngleRear>>
SlipAngles(car, k, steerAngle) ==
  LET yawFront == MulDiv(car.angularVelocity, car.lf, 1000)
      yawRear == MulDiv(car.angularVelocity, car.lr, 1000)
  IN  IF Abs(k.vLong) > 500000
        THEN << Atan2(k.vLat + yawFront, Abs(k.vLong)) - steerAngle * Sign(k.vLong),
                Atan2(k.vLat - yawRear, Abs(k.vLong)) >>
      ELSE IF k.speed > 500000
        THEN << Atan2(k.vLat + yawFront, 500000) - steerAngle,
                Atan2(k.vLat - yawRear, 500000) >>
      ELSE <<0, 0>>

\* update, lines 557-570: <<frontTotalLat, rearTotalLat>>; the cornering
\* stiffnesses 80000 and 90000 N/rad act on urad
AxleLateral(car, slip, normals) ==
  LET maxFrontLat == MulDiv(normals[1], car.lateralGripCoeffs[1], U)
                     + MulDiv(normals[2], car.lateralGripCoeffs[2], U)
      maxRearLat == MulDiv(normals[3], car.lateralGripCoeffs[3], U)
                    + MulDiv(normals[4], car.lateralGripCoeffs[4], U)
  IN  << clamp(-Quot(slip[1] * 8, 100), -maxFrontLat, maxFrontLat),
         clamp(-Quot(slip[2] * 9, 100), -maxRearLat, maxRearLat) >>

\* update, lines 579-586
BrakeDirection(vLong) == IF Sign(vLong) = 0 THEN 1 ELSE Sign(vLong)

\* update, lines 572-592: tireForcesLong
TireForcesLong(car, driveForce, brakeForces, vLong) ==
  LET driveFrontPerWheel == Quot(MulDiv(driveForce, car.driveSplitFront, U), 2)
      driveRearPerWheel == Quot(MulDiv(driveForce, car.driveSplitRear, U), 2)
  IN  << driveFrontPerWheel - BrakeDirection(vLong) * brakeForces[1],
         driveFrontPerWheel - BrakeDirection(vLong) * brakeForces[2],
         driveRearPerWheel - BrakeDirection(vLong) * brakeForces[3],
         driveRearPerWheel - BrakeDirection(vLong) * brakeForces[4] >>

\* update, lines 594-599: tireForcesLat
TireForcesLat(axleLat, bias) ==
  << SplitLeft(axleLat[1], bias), SplitRight(axleLat[1], bias),
     SplitLeft(axleLat[2], bias), SplitRight(axleLat[2], bias) >>

\* update, lines 612-642: the four saturated tire forces
SaturateTires(car, fLong, fLat, normals, frontGripBonus) ==
  << SaturateTire(car, 1, fLong[1], fLat[1], normals[1], frontGripBonus),
     SaturateTire(car, 2, fLong[2], fLat[2], normals[2], frontGripBonus),
     SaturateTire(car, 3, fLong[3], fLat[3], normals[3], frontGripBonus),
     SaturateTire(car, 4, fLong[4], fLat[4], normals[4], frontGripBonus) >>

\* update, lines 635-636: the tires after the loop
TiresAfter(car, sat, normals) ==
  [i \in 1..4 |->
     [car.tires[i] EXCEPT !.hasTraction = sat[i].hasTraction,
                          !.normalLoad = normals[i],
                          !.combinedForce = <<sat[i].fLong, sat[i].fLat>>]]

\* update, lines 605-610 and 641: the yaw moment, N mm
YawMoment(car, sat) ==
  LET halfTrack == car.config.trackWidthM \div 2
  IN  (car.lf * sat[1].fLat - halfTrack * sat[1].fLong)
    + (car.lf * sat[2].fLat + halfTrack * sat[2].fLong)
    + (-car.lr * sat[3].fLat - halfTrack * sat[3].fLong)
    + (-car.lr * sat[4].fLat + halfTrack * sat[4].fLong)

\* update, lines 644-660: the force on the body in world axes
ForceWorld(car, k, totalLongitudinal, totalLateral, drag) ==
  LET rolling == Quot(Weight(car.config) * Quot(car.config.rollingResistanceCoeff, 10),
                      100000)
      velDir == normalize(car.velocity)
      fx == MulDiv(totalLongitudinal, k.forward[1], U) + MulDiv(totalLateral, k.right[1], U)
      fy == MulDiv(totalLongitudinal, k.forward[2], U) + MulDiv(totalLateral, k.right[2], U)
  IN  IF k.speed > 1000
      THEN << fx - MulDiv(drag + rolling, velDir[1], U),
              fy - MulDiv(drag + rolling, velDir[2], U) >>
      ELSE <<fx, fy>>

\* update, lines 678-684: the low-speed settle applied to the integrated velocity
Settle(car, speed, velocity, angularVelocity) ==
  LET settle == speed < 200000 /\ Abs(car.throttle) < 500 /\ car.brake > 1000
      halved == << Quot(velocity[1], 2), Quot(velocity[2], 2) >>
      stopped == settle /\ Hypot(Quot(velocity[1], 2), Quot(velocity[2], 2)) < 50000
  IN  [ velocity |-> IF stopped THEN <<0, 0>> ELSE IF settle THEN halved ELSE velocity,
        angularVelocity |-> IF stopped THEN 0 ELSE angularVelocity ]

\* update, lines 662-684, from the acceleration and the angular velocity
IntegrateWith(car, k, hz, steerAngle, tires, acceleration, velocity, angularVelocity) ==
  [car EXCEPT
     !.steerAngle = steerAngle,
     !.tires = tires,
     !.velocity = Settle(car, k.speed, velocity, angularVelocity).velocity,
     !.position = << car.position[1] + Quot(velocity[1], hz * 1000),
                     car.position[2] + Quot(velocity[2], hz * 1000) >>,
     !.angularVelocity = Settle(car, k.speed, velocity, angularVelocity).angularVelocity,
     !.heading = JsRem(car.heading + Quot(angularVelocity, hz) + PI, TWO_PI) - PI,
     !.lastLongitudinalAccel = DotU(acceleration, k.forward),
     !.lastLateralAccel = DotU(acceleration, k.right)]

\* update, lines 662-676, from the world force and the yaw moment
Integrate(car, k, hz, steerAngle, tires, forceWorld, yawMoment) ==
  IntegrateWith(car, k, hz, steerAngle, tires,
    << Quot(forceWorld[1] * 1000, car.config.massKg),
       Quot(forceWorld[2] * 1000, car.config.massKg) >>,
    << car.velocity[1] + Quot(Quot(forceWorld[1] * 1000, car.config.massKg) * 1000, hz),
       car.velocity[2] + Quot(Quot(forceWorld[2] * 1000, car.config.massKg) * 1000, hz) >>,
    car.angularVelocity + Quot(MulDiv(yawMoment, 1000, Max(1, car.inertia)), hz))

\* update, lines 601-676, from the saturated tire forces
UpdateFromTires(car, k, hz, steerAngle, normals, sat, drag) ==
  Integrate(car, k, hz, steerAngle, TiresAfter(car, sat, normals),
    ForceWorld(car, k, sat[1].fLong + sat[2].fLong + sat[3].fLong + sat[4].fLong,
               sat[1].fLat + sat[2].fLat + sat[3].fLat + sat[4].fLat, drag),
    YawMoment(car, sat))

\* update, lines 544-642, from the normal loads
UpdateFromLoads(car, k, hz, steerAngle, lon, normals, bias, drag) ==
  UpdateFromTires(car, k, hz, steerAngle, normals,
    SaturateTires(car,
      TireForcesLong(car, lon.driveForce, lon.brakeForces, k.vLong),
      TireForcesLat(AxleLateral(car, SlipAngles(car, k, steerAngle), normals), bias),
      normals, FrontGripBonus(car, k, steerAngle)),
    drag)

\* update, lines 495-525, from the powertrain state and the steer angle
UpdateFromPowertrain(k, hz, steerAngle, lon, aero) ==
  UpdateFromLoads(lon.car, k, hz, steerAngle, lon,
    TireNormalsOf(AxleLoads(lon.car, aero.downforce), LateralBias(lon.car)),
    LateralBias(lon.car), aero.drag)

\* update, lines 484-497, in the body frame k
UpdateInFrame(car1, k, brakeInput, steerInput, hz) ==
  UpdateFromPowertrain(k, hz, SteerStep(car1, k.speed, steerInput, hz),
    computeLongitudinalForces(car1, brakeInput, hz, k.vLong),
    computeAeroForces(car1, k.speed, k.vLong < -200000))

\* Car.update(throttleInput, brakeInput, steerInput, dt) with dt = 1/hz
update(car0, throttleInput, brakeInput, steerInput, hz) ==
  UpdateInFrame(updatePowertrain(car0, throttleInput, Kinematics(car0).vLong, hz),
                Kinematics(car0), brakeInput, steerInput, hz)

(***************************************************************************)
(* main.js: vehicle specs and createCarConfigFromSpec                      *)
(***************************************************************************)
\* an object with no performance field: performance fields are functions from
\* the keys present to their values (times in ms, speeds in 1/100 km/h or mph)
NoFields == [k \in {} |-> 0]

\* a field value is {n} for the number n and {} where Number(value) is NaN
NotANumber == {}

\* a CarSpecs entry with no field set; own holds the entry's own performance
\* fields, performance/realWorld/stats its nested containers
BlankSpec ==
  [ id |-> None, massKg |-> None, driveType |-> None, gearRatios |-> None,
    finalDrive |-> None, horsepower |-> None, torqueNm |-> None,
    brakeHorsepower |-> None, dragCoefficient |-> None,
    downforceCoefficient |-> None, frontalAreaM2 |-> None, wheelRadiusM |-> None,
    tireGrips |-> None, tireGripLat |-> None, tireLateralGripFactor |-> None,
    wheelbaseM |-> None, cgHeightM |-> None, trackWidthM |-> None,
    frontWeightDistribution |-> None, drivetrainEfficiency |-> None,
    rollingResistanceCoeff |-> None, revLimiterRpm |-> None,
    brakeBiasFront |-> None, brakeTorquePerWheelNm |-> None,
    calibrationOverrides |-> None,
    own |-> NoFields, performance |-> None, realWorld |-> None, stats |-> None,
    performanceVerified |-> None ]

\* s ?? d on optional values
Coalesce(s, d) == IF IsNone(s) THEN d ELSE s

\* ensureGearRatios(ratios); None is a value that is not an array
ensureGearRatios(ratios) ==
  IF IsNone(ratios) \/ Len(The(ratios)) = 0 THEN defaultCarConfig.gearRatios
  ELSE IF The(ratios)[1] # 0 THEN <<0>> \o The(ratios)
  ELSE The(ratios)

\* NaN and Infinity are carried as two reserved integers beyond every quantity
\* of the model
NaN == -(2^30)
Infinity == 2^30

\* Number.isFinite(value)
isFinite(value) == value # NaN /\ value # Infinity

\* the shapes of a grip input: an array of numbers, a text, or a single number
Array(items) == [kind |-> "array", items |-> items]
Text(tokens) == [kind |-> "string", tokens |-> tokens]
Scalar(value) == [kind |-> "scalar", value |-> value]

\* a text is a sequence of tokens: the decimal text of a number, a delimiter
\* (one of , ; |) or a word that is not numeric
NumberToken(n) == [is |-> "number", n |-> n]
Delimiter == [is |-> "delimiter", n |-> 0]
Word == [is |-> "word", n |-> 0]

\* text.split(/[,;|]/): the token sequences between the delimiters
RECURSIVE SplitParts(_)
SplitParts(tokens) ==
  IF tokens = <<>> THEN << <<>> >>
  ELSE IF Head(tokens).is = "delimiter" THEN << <<>> >> \o SplitParts(Tail(tokens))
  ELSE LET rest == SplitParts(Tail(tokens))
       IN  << <<Head(tokens)>> \o Head(rest) >> \o Tail(rest)

\* Number(part.trim()): 0 for an empty part, the number of a part that is one
\* number's text, NaN for any other part
PartToNumber(part) ==
  IF part = <<>> THEN 0
  ELSE IF Len(part) = 1 /\ part[1].is = "number" THEN part[1].n
  ELSE NaN

\* the numbers the items of a grip input convert to, in their order
InputItems(input) ==
  IF input.kind = "array" THEN input.items
  ELSE IF input.kind = "string"
    THEN [i \in 1..Len(SplitParts(input.tokens)) |-> PartToNumber(SplitParts(input.tokens)[i])]
  ELSE <<input.value>>

\* the items that are finite numbers, in their order
FiniteNumbers(items) == SelectSeq(items, isFinite)

\* normalizeGripInput(input); None is null or undefined
normalizeGripInput(input) ==
  IF IsNone(input) THEN None
  ELSE IF Len(FiniteNumbers(InputItems(The(input)))) > 0
    THEN Some(FiniteNumbers(InputItems(The(input))))
  ELSE None

\* a variant of ensureGripArray that repeats the last value given
ensureGripArray_m(values, fallbackArray) ==
  LET v == normalizeGripInput(values)
      n == IF IsNone(v) THEN 0 ELSE Len(The(v))
  IN  IF n > 0 THEN Some([i \in 1..4 |-> The(v)[Min(i, n)]])
      ELSE IF IsNone(fallbackArray) THEN None
      ELSE Some(SubSeq(The(fallbackArray), 1, 4))

\* ensureGripArray(values, fallbackArray); fallbackArray is an array or None
\* for undefined
ensureGripArray(values, fallbackArray) ==
  LET normalizedValues == normalizeGripInput(values)
      normalizedFallback ==
        IF IsNone(fallbackArray) THEN None
        ELSE normalizeGripInput(Some(Array(The(fallbackArray))))
      n == IF IsNone(normalizedValues) THEN 0 ELSE Len(The(normalizedValues))
      m == IF IsNone(normalizedFallback) THEN 0 ELSE Len(The(normalizedFallback))
  IN  IF n >= 4 THEN Some(SubSeq(The(normalizedValues), 1, 4))
      ELSE IF n > 0 THEN Some([i \in 1..4 |-> The(normalizedValues)[((i - 1) % n) + 1]])
      ELSE IF m >= 4 THEN Some(SubSeq(The(normalizedFallback), 1, 4))
      ELSE IF m > 0 THEN Some([i \in 1..4 |-> The(normalizedFallback)[((i - 1) % m) + 1]])
      ELSE None

\* computeBrakeHorsepower(horsepower)
computeBrakeHorsepower(horsepower) ==
  IF ~isFinite(horsepower) THEN horsepower ELSE Quot(horsepower * 82, 100)

\* computeFallbackBrakeTorque(config)
computeFallbackBrakeTorque(config) == FallbackBrakeTorque(config)

\* the three tunable keys of a config taken from an overrides object
\* (a record of optional values), where it has them
ApplyOverrideKeys(config, ov) ==
  [config EXCEPT
     !.dragCoefficient = OrElse(ov.dragCoefficient, @),
     !.rollingResistanceCoeff = OrElse(ov.rollingResistanceCoeff, @),
     !.drivetrainEfficiency = OrElse(ov.drivetrainEfficiency, @)]

\* createCarConfigFromSpec(spec, { carId, applyOverrides }); managerOverrides is
\* what carVerificationManager.getOverrides(carId) returns (None for null)
createCarConfigFromSpec(spec, applyOverrides, managerOverrides) ==
  LET base == defaultCarConfig
      baseLatFactor == base.tireLateralGripFactor
      tireGrips == OrElse(ensureGripArray(spec.tireGrips, Some(base.tireGrips)),
                          base.tireGrips)
      latFactor == OrElse(spec.tireLateralGripFactor, baseLatFactor)
      tireLateralGrips ==
        OrElse(ensureGripArray(spec.tireGripLat,
                 Some([i \in 1..Len(tireGrips) |-> Quot(tireGrips[i] * baseLatFactor, U)])),
               [i \in 1..Len(tireGrips) |-> Quot(tireGrips[i] * latFactor, U)])
      horsepower == OrElse(spec.horsepower, base.horsepower)
      config0 ==
        [ base EXCEPT
            !.massKg = OrElse(spec.massKg, @),
            !.driveType = OrElse(spec.driveType, @),
            !.gearRatios = ensureGearRatios(spec.gearRatios),
            !.finalDriveRatio = OrElse(spec.finalDrive, @),
            !.horsepower = horsepower,
            !.peakTorqueNm = OrElse(spec.torqueNm, @),
            !.brakeHorsepower = OrElse(spec.brakeHorsepower,
                                       computeBrakeHorsepower(horsepower)),
            !.dragCoefficient = OrElse(spec.dragCoefficient, @),
            !.downforceCoefficient = OrElse(spec.downforceCoefficient, @),
            !.frontalAreaM2 = OrElse(spec.frontalAreaM2, @),
            !.wheelRadiusM = OrElse(spec.wheelRadiusM, @),
            !.tireGrips = tireGrips,
            !.tireLateralGrips = Some(tireLateralGrips),
            !.tireLateralGripFactor = latFactor,
            !.wheelbaseM = OrElse(spec.wheelbaseM, @),
            !.cgHeightM = OrElse(spec.cgHeightM, @),
            !.trackWidthM = OrElse(spec.trackWidthM, @),
            !.frontWeightDistribution = OrElse(spec.frontWeightDistribution, @),
            !.drivetrainEfficiency = OrElse(spec.drivetrainEfficiency, @),
            !.rollingResistanceCoeff = OrElse(spec.rollingResistanceCoeff, @),
            !.revLimiterRpm = Some(OrElse(Coalesce(spec.revLimiterRpm, base.revLimiterRpm),
                                          7000)),
            !.brakeBiasFront = OrElse(spec.brakeBiasFront, @) ]
      config1 == IF IsNone(spec.calibrationOverrides) THEN config0
                 ELSE ApplyOverrideKeys(config0, The(spec.calibrationOverrides))
      config2 ==
        [ config1 EXCEPT !.brakeTorquePerWheelNm =
            OrElse(ensureGripArray(spec.brakeTorquePerWheelNm,
                                   Some(base.brakeTorquePerWheelNm)),
                   computeFallbackBrakeTorque(config1)) ]
  IN  IF applyOverrides /\ ~IsNone(spec.id) /\ ~IsNone(managerOverrides)
      THEN ApplyOverrideKeys(config2, The(managerOverrides))
      ELSE config2

(***************************************************************************)
(* main.js: CarVerificationManager, the pure parts                         *)
(***************************************************************************)
\* CAR_VERIFICATION_VERSION
CAR_VERIFICATION_VERSION == 1

\* findNumeric: the value at a key of one container, if it is a finite number > 0
AcceptedAt(container, key) ==
  IF IsNone(container) THEN None
  ELSE IF key \notin DOMAIN The(container) THEN None
  ELSE IF ~IsNone(The(container)[key]) /\ The(The(container)[key]) > 0
    THEN The(container)[key]
  ELSE None

\* findNumeric(spec, keys): keys in order, and for each key the containers
\* spec, spec.performance, spec.realWorld, spec.stats in order
findNumeric(spec, keys) ==
  LET containers == <<Some(spec.own), spec.performance, spec.realWorld, spec.stats>>
      Hit(n) == AcceptedAt(containers[((n - 1) % 4) + 1], keys[((n - 1) \div 4) + 1])
      hits == {n \in 1..(4 * Len(keys)) : ~IsNone(Hit(n))}
  IN  IF hits = {} THEN None ELSE Hit(CHOOSE n \in hits : \A m \in hits : n <= m)

TopSpeedKeys == <<"topSpeedKph", "topSpeedKmH", "topSpeed", "vMaxKph", "vMaxKmH">>
TopSpeedMphKeys == <<"topSpeedMph", "topSpeedMPH">>
ZeroToHundredKeys ==
  <<"zeroToHundredSec", "zeroTo100Sec", "zeroToHundred", "zeroTo100", "zeroToHundredKmH">>
ZeroToSixtyKeys ==
  <<"zeroToSixtySec", "zeroToSixty", "zeroTo60Sec", "zeroTo60", "zeroToSixtyMph">>

\* mph * 1.60934
MphToKph_m(mph) == mph
MphToKph(mph) == mph + MulDiv(mph, 30467, 50000)

\* a 0-60 mph time * 1.05
SixtyToHundred(sixty) == Quot(sixty * 105, 100)

\* extractTargets, lines 1005-1029: the two targets, each optional
TargetsOf(spec) ==
  [ topSpeedKph |->
      Coalesce(findNumeric(spec, TopSpeedKeys),
               IF IsNone(findNumeric(spec, TopSpeedMphKeys)) THEN None
               ELSE Some(MphToKph(The(findNumeric(spec, TopSpeedMphKeys))))),
    zeroToHundredSec |->
      Coalesce(findNumeric(spec, ZeroToHundredKeys),
               IF IsNone(findNumeric(spec, ZeroToSixtyKeys)) THEN None
               ELSE Some(SixtyToHundred(The(findNumeric(spec, ZeroToSixtyKeys))))) ]

\* a variant of extractTargets that never answers null: C5 must notice it
extractTargets_m(spec) == Some(TargetsOf(spec))

\* extractTargets(spec): null (None) when neither target is found
extractTargets(spec) ==
  IF IsNone(TargetsOf(spec).topSpeedKph) /\ IsNone(TargetsOf(spec).zeroToHundredSec)
  THEN None
  ELSE Some(TargetsOf(spec))

\* isWithinTolerance(current, target, toleranceFraction), the fraction U-scaled
isWithinTolerance(current, target, toleranceFraction) ==
  IF IsNone(current) \/ IsNone(target) THEN FALSE
  ELSE IF The(target) = 0 THEN FALSE
  ELSE Abs(The(current) - The(target)) * U <= Abs(toleranceFraction) * Abs(The(target))

\* a mix that adds the weighted target without scaling the current value down
mix_m(current, target, factor) == current + MulDiv(target, clamp(factor, 0, U), U)

\* mix(current, target, factor) for finite current, the factor U-scaled
mix(current, target, factor) ==
  MulDiv(current, U - clamp(factor, 0, U), U) + MulDiv(target, clamp(factor, 0, U), U)

\* adjustAcceleration, line 1244, and adjustTopSpeed, line 1279: the clamped ratio
ClampedRatio(measured, target, lo, hi) == clamp(MulDiv(measured, U, target), lo, hi)

\* adjustAcceleration, lines 1244-1267, for a ratio
AccelerationAdjusted(config, ratio) ==
  [config EXCEPT
     !.drivetrainEfficiency =
        mix(@, clamp(MulDiv(@, U, Pow(ratio, 9200)), 600000, 1000000), 5500),
     !.rollingResistanceCoeff =
        mix(@, clamp(MulDiv(@, U + Quot((ratio - U) * 45, 100), U), 4500, 30000), 3500)]

\* adjustAcceleration(config, measuredSec, targetSec): the config afterwards
adjustAcceleration(config, measuredSec, targetSec) ==
  IF IsNone(measuredSec) \/ IsNone(targetSec) THEN config
  ELSE IF The(measuredSec) <= 0 \/ The(targetSec) <= 0 THEN config
  ELSE AccelerationAdjusted(config,
         ClampedRatio(The(measuredSec), The(targetSec), 2500, 40000))

\* adjustTopSpeed, lines 1279-1313, for a ratio
TopSpeedAdjusted(config, ratio) ==
  [config EXCEPT
     !.dragCoefficient =
        mix(@, clamp(MulDiv(MulDiv(@, ratio, U), ratio, U), 160000, 900000), 6000),
     !.drivetrainEfficiency =
        mix(@, clamp(MulDiv(@, U, Pow(ratio, 3500)), 600000, 1000000), 2500),
     !.rollingResistanceCoeff =
        mix(@, clamp(MulDiv(@, U + Quot((ratio - U) * 25, 100), U), 4500, 30000), 2000)]

\* adjustTopSpeed(config, measuredKph, targetKph): the config afterwards
adjustTopSpeed(config, measuredKph, targetKph) ==
  IF IsNone(measuredKph) \/ IsNone(targetKph) THEN config
  ELSE IF The(measuredKph) <= 0 \/ The(targetKph) <= 0 THEN config
  ELSE TopSpeedAdjusted(config,
         ClampedRatio(The(measuredKph), The(targetKph), 5000, 16000))

\* Number(value.toFixed(5)) on a 1/10^6 value
ToFixed5(value) == Quot(value, 10) * 10

\* computeOverrides, lines 1340-1348: the override for one key, if it is kept
OverrideFor(nextValue, baseValue) ==
  IF Abs(nextValue - baseValue) <= 100 THEN None ELSE Some(ToFixed5(nextValue))

\* computeOverrides(config, baseConfig): the overrides object, None for null
computeOverrides(config, baseConfig) ==
  LET ov == [ dragCoefficient |->
                OverrideFor(config.dragCoefficient, baseConfig.dragCoefficient),
              rollingResistanceCoeff |->
                OverrideFor(config.rollingResistanceCoeff, baseConfig.rollingResistanceCoeff),
              drivetrainEfficiency |->
                OverrideFor(config.drivetrainEfficiency, baseConfig.drivetrainEfficiency) ]
  IN  IF IsNone(ov.dragCoefficient) /\ IsNone(ov.rollingResistanceCoeff)
         /\ IsNone(ov.drivetrainEfficiency)
      THEN None ELSE Some(ov)

\* computeOverrides, line 1349: the working config after the write-back
ConfigAfterOverrides(config, baseConfig) ==
  IF IsNone(computeOverrides(config, baseConfig)) THEN config
  ELSE ApplyOverrideKeys(config, The(computeOverrides(config, baseConfig)))

(***************************************************************************)
(* Bounds and vehicle fixtures                                             *)
(***************************************************************************)
\* update ticks explored per drive
MaxCarTicks == 160
\* the tick at which the driver may change the held inputs
InputChangeTick == 80
\* input changes per drive
MaxInputChanges == 1
\* the largest maxIterations option explored
MaxRounds == 2
\* the wall clock is seen to pass the deadline only on this grid of measurement ticks
ClockGrainTicks == 1000
\* verifyAllCars calls explored, and reloads of the page
MaxCalls == 2
MaxReloads == 1

\* the stock vehicle: every field falls back to defaultCarConfig
StockSpec == [BlankSpec EXCEPT !.id = Some("stock")]

\* a tall, short all-wheel-drive vehicle
TallAwdSpec ==
  [BlankSpec EXCEPT !.id = Some("tallawd"), !.driveType = Some("AWD"),
                    !.horsepower = Some(600), !.torqueNm = Some(800),
                    !.cgHeightM = Some(1200), !.wheelbaseM = Some(2000),
                    !.frontWeightDistribution = Some(4500)]

DriveFixtures == {StockSpec, TallAwdSpec}

\* frame rates: the calibration tick (1/200 s) and the game loop's 1/60 s
FrameRates == {60, 200}

\* held driver inputs (throttle, brake, steer)
Inputs == [throttle : {-U, 0, U}, brake : {0, U}, steer : {0, U}]

\* a light all-wheel-drive car on soft tires, the base of the calibration fixtures
QuickSpec ==
  [BlankSpec EXCEPT !.driveType = Some("AWD"), !.massKg = Some(1200),
                    !.horsepower = Some(1500), !.torqueNm = Some(1600),
                    !.tireGrips = Some(Array(<<20000, 20000, 20000, 20000>>))]

\* a 0-100 km/h target (ms) on the full gearbox
SprintSpec(zeroMs) ==
  [QuickSpec EXCEPT !.id = Some("sprint"),
                    !.own = [k \in {"zeroToHundredSec"} |-> Some(zeroMs)]]

\* a car with a braking parachute out, which settles at its top speed early,
\* with both targets (the top speed given in mph under performance)
WingedSpec(zeroMs, topMph) ==
  [QuickSpec EXCEPT !.id = Some("winged"), !.dragCoefficient = Some(900000),
                    !.frontalAreaM2 = Some(2000),
                    !.own = [k \in {"zeroTo100"} |-> Some(zeroMs)],
                    !.performance = Some([k \in {"topSpeedMph"} |-> Some(topMph)])]

\* a light, weak car under a sail, whose top speed the drag decides: the target
\* (km/h) is given as stats.topSpeed
KartSpec(topKph) ==
  [QuickSpec EXCEPT !.id = Some("kart"), !.massKg = Some(400), !.horsepower = Some(80),
                    !.torqueNm = Some(200), !.dragCoefficient = Some(800000),
                    !.frontalAreaM2 = Some(2000),
                    !.stats = Some([k \in {"topSpeed"} |-> Some(topKph)])]

\* no performance field that extractTargets recognizes
PlainSpec ==
  [BlankSpec EXCEPT !.id = Some("plain"),
                    !.own = [k \in {"zeroToHundredSec", "powerKw"} |->
                               IF k = "powerKw" THEN Some(300) ELSE NotANumber],
                    !.stats = Some([k \in {"topSpeed"} |-> Some(0)])]

\* a driveType that is not a string: the Car constructor throws on it
BrokenSpec ==
  [BlankSpec EXCEPT !.id = Some("broken"), !.driveType = Some(NonStringDriveType),
                    !.own = [k \in {"zeroToSixty"} |-> Some(4000)]]

\* the entries of carSpecs.js, in file order, and their specs without the flag
CatalogOrder == <<"sprint", "crawl", "winged", "kart", "plain", "broken">>
Catalog ==
  [id \in {CatalogOrder[i] : i \in 1..Len(CatalogOrder)} |->
     CASE id = "sprint" -> SprintSpec(1650)
       [] id = "crawl" -> [SprintSpec(900) EXCEPT !.id = Some("crawl")]
       [] id = "winged" -> WingedSpec(1600, 9820)
       [] id = "kart" -> KartSpec(6000)
       [] id = "plain" -> PlainSpec
       [] OTHER -> BrokenSpec]
CarIds == DOMAIN Catalog

\* the CarSpecs in memory once carSpecs.js, holding these literals, has been loaded
LoadSpecs(file) == [id \in CarIds |-> [Catalog[id] EXCEPT !.performanceVerified = file[id]]]

(***************************************************************************)
(* main.js: Game, Player and Vehicle as the player walks and drives.       *)
(* A game is [mode, paused, active, attachedVehicle, near]: active and     *)
(* attachedVehicle are the player's fields, attachedVehicle being "null"  *)
(* or "vehicle", and near says that the player's body is closer to the     *)
(* vehicle's than TILE_SIZE * 0.9.  A world is the game with vehicle.physics*)
(***************************************************************************)
pixelsPerMeter == 16

ZERO_INPUT ==
  [forward |-> FALSE, reverse |-> FALSE, left |-> FALSE, right |-> FALSE, brake |-> FALSE]

World(game, car) == [game |-> game, car |-> car]

\* Car.stop()
stop(car) == [car EXCEPT !.velocity = <<0, 0>>, !.angularVelocity = 0]

\* Vehicle.getSpeed(): pixels per second, in 1/1000000 px/s
getSpeedPixelsPerSecond(car) == getSpeedMetersPerSecond(car) * pixelsPerMeter

\* Player.attachToVehicle(vehicle): syncWithVehicle puts the body on the vehicle's
attachToVehicle(game) ==
  [game EXCEPT !.active = FALSE, !.attachedVehicle = "vehicle", !.near = TRUE]

\* Player.detachFromVehicle(vehicle, offset) with the offset of exitVehicle,
\* bodyWidth * 0.9 = 41.4 px from the vehicle
detachFromVehicle(game) ==
  [game EXCEPT !.active = TRUE, !.attachedVehicle = "null", !.near = TRUE]

\* Player.restoreState(state): near is whether state.position, or the position
\* the body keeps when state.position is missing, is within reach of the vehicle
playerRestoreState(game, active, near) ==
  [game EXCEPT !.active = active, !.attachedVehicle = "null", !.near = near]

\* Game.enterVehicle()
enterVehicle(game, car) ==
  World(attachToVehicle([game EXCEPT !.mode = "driving"]), stop(car))

\* Game.exitVehicle()
exitVehicle(game, car) ==
  World(detachFromVehicle([game EXCEPT !.mode = "onFoot"]), stop(car))

\* handleInteract entering and leaving at any speed
handleInteract_m(game, car) ==
  IF game.mode = "driving" THEN exitVehicle(game, car)
  ELSE IF game.near THEN enterVehicle(game, car) ELSE World(game, car)

\* Game.handleInteract()
handleInteract(game, car) ==
  IF game.mode = "driving"
    THEN IF getSpeedPixelsPerSecond(car) < 10 * 1000000
           THEN exitVehicle(game, car)
           ELSE World(game, car)
    ELSE IF game.near /\ getSpeedPixelsPerSecond(car) < 10 * 1000000
           THEN enterVehicle(game, car)
           ELSE World(game, car)

\* Game.resetVehicle(): Vehicle.reset puts the physics back on the start pose,
\* whose angle is 0
resetVehicle(game, car) ==
  World(attachToVehicle([game EXCEPT !.mode = "driving"]), resetState(car, 0))

\* Game.togglePause()
togglePause(game) == [game EXCEPT !.paused = ~game.paused]

\* Vehicle.toggleTransmissionMode()
toggleTransmissionMode(car) ==
  setTransmissionMode(car, IF car.manualMode THEN "auto" ELSE "manual")

\* Game.applySaveState(save) with a save object: save.vehicle is None or a
\* pair of the saved physics and its transmissionMode, save.mode a string,
\* save.near the reach of save.player.position
applySaveState(game, car, save) ==
  LET vehicle == IF IsNone(save.vehicle) THEN car
                 ELSE vehicleRestoreState(car, The(save.vehicle)[1], The(save.vehicle)[2])
      desiredMode == IF save.mode = "onFoot" THEN "onFoot" ELSE "driving"
      moded == [game EXCEPT !.mode = desiredMode]
  IN  World(IF desiredMode = "driving" THEN attachToVehicle(moded)
            ELSE playerRestoreState(moded, TRUE, save.near),
            vehicle)

\* Vehicle.update(inputState, dt, bounds) as it leaves vehicle.physics, on open
\* ground where the body collides with nothing; vehicle.transmissionMode is
\* "manual" exactly when physics.manualMode is set
vehicleUpdate(car, inputState, hz) ==
  LET isManual == car.manualMode
      longitudinalSpeed == Kinematics(car).vLong
      absLongitudinal == Abs(longitudinalSpeed)
      forwardPressed == inputState.forward /\ ~inputState.reverse
      reversePressed == inputState.reverse /\ ~inputState.forward
      movingBackward == longitudinalSpeed < -500000
      brake0 == IF inputState.brake THEN U ELSE 0
      throttle1 == IF forwardPressed THEN U ELSE 0
      reverseBrakes == reversePressed /\ absLongitudinal >= 600000 /\ longitudinalSpeed > 0
      throttle2 == IF ~reversePressed THEN throttle1
                   ELSE IF reverseBrakes THEN 0 ELSE -U
      brake2 == IF reverseBrakes THEN Max(brake0, 6000) ELSE brake0
      autoBrakes == ~isManual /\ movingBackward /\ forwardPressed
      throttle3 == IF autoBrakes THEN 0 ELSE throttle2
      brake3 == IF autoBrakes THEN Max(brake2, U) ELSE brake2
      inManualReverse == isManual /\ car.reverseMode
      throttle4 == IF inManualReverse /\ forwardPressed THEN 0 ELSE throttle3
      brake4 == IF inManualReverse /\ forwardPressed THEN Max(brake3, U) ELSE brake3
      throttleInput == IF inputState.forward /\ inputState.reverse THEN 0 ELSE throttle4
      steerInput == (IF inputState.right THEN U ELSE 0) - (IF inputState.left THEN U ELSE 0)
  IN  update(car, throttleInput, brake4, steerInput, hz)

(***************************************************************************)
(* State                                                                   *)
(***************************************************************************)
VARIABLES
  car,          \* the Car driven by the game loop
  held,         \* the driver inputs held on the controls
  hz,           \* ticks per second of the game loop (dt = 1/hz)
  updates,      \* Car.update calls on car so far
  changes,      \* input changes so far
  pair,         \* two Car instances built from one config, and the inputs fed to them
  probe,        \* the argument and the result of a helper function called on its own
  game,         \* Game: mode, paused, and the player's active, attachedVehicle and reach
  specs,        \* the CarSpecs entries in memory, by vehicle id
  manager,      \* CarVerificationManager: records, overrides, initialized
  storage,      \* localStorage: whether it exists, and the records persisted in it
  specFile,     \* carSpecs.js: the performanceVerified literal of each entry, if any
  batch,        \* the locals of a verifyAllCars call and its position
  cal,          \* the locals of a runCalibration call and its position
  cfgHeap,      \* the config objects runCalibration allocated, by reference
  testCar,      \* the test car of the measurement in progress, or None
  meas,         \* the locals of the measurement loop in progress
  pastDeadline, \* Date.now() > deadline
  calResult,    \* what runCalibration returned, or None
  obs           \* what an observer of the run has seen so far

vars == <<car, held, hz, updates, changes, pair, probe, game, specs, manager, storage,
          specFile, batch, cal, cfgHeap, testCar, meas, pastDeadline, calResult, obs>>

carVars == <<car, held, hz, updates, changes, pair, probe, game>>
managerVars == <<specs, manager, storage, specFile, batch>>
calVars == <<cal, cfgHeap, testCar, meas, pastDeadline, calResult>>

(***************************************************************************)
(* runCalibration and the measurements, step by step                       *)
(***************************************************************************)
SkippedNote == "No performance targets provided; skipped calibration."
FlagNote == "Marked verified via CarSpecs performance flag."
FailureError == "Calibration failed or timed out"
ThrownError == "TypeError: this.config.driveType.toUpperCase is not a function"

\* the timeoutMs options explored
TimeoutChoices == {0, 120000}

\* `Calibration timed out after ${timeoutMs} ms`
TimedOutNote(timeoutMs) ==
  CASE timeoutMs = 0 -> "Calibration timed out after 0 ms"
    [] timeoutMs = 120000 -> "Calibration timed out after 120000 ms"
    [] OTHER -> "Calibration timed out after ? ms"

\* the note contains "timed out"
MentionsTimedOut(note) ==
  ~IsNone(note) /\ The(note) \in {TimedOutNote(t) : t \in TimeoutChoices}

\* the note contains "skipped"
MentionsSkipped(note) == ~IsNone(note) /\ The(note) = SkippedNote

\* the passes that `while (time < maxTime)` and `while (time < maxDuration)`
\* admit, time being the double-precision sum of one dt = 1/200 per pass: the
\* sum of 3000 steps is 15.000000000000945, but the sum of 32000 steps is
\* 159.99999999992698, still below 160, so that a 32001st pass is admitted;
\* then 5 s / dt and settleThreshold / (dt / 4)
ZeroMaxTicks == 15 * 200
TopMaxTicks == 160 * 200 + 1
TopMinTicks == 5 * 200
SettleQuarterTicks == 7 * 200 * 4

NoMeasuredZero == [timeSec |-> None, reached |-> FALSE]
NoMeasuredTop == [maxSpeedKph |-> None, durationSec |-> 0]
IdleMeas == [time |-> 0, previousSpeed |-> 0, maxSpeed |-> 0, stableTime |-> 0]

IdleCal ==
  [ pc |-> "idle", carId |-> "", timeoutMs |-> 0, maxIterations |-> 1,
    targets |-> [topSpeedKph |-> None, zeroToHundredSec |-> None],
    baseConfig |-> 0, workingConfig |-> 0, index |-> 0, actualIterations |-> 0,
    timedOut |-> FALSE, accelClose |-> TRUE, topClose |-> TRUE, final |-> FALSE,
    measuredZero |-> NoMeasuredZero, measuredTop |-> NoMeasuredTop ]

IdleObs ==
  [ sawDeadline |-> FALSE, carBuilt |-> FALSE, ticked |-> FALSE,
    roundConfig |-> None, calibrated |-> {}, tickedIds |-> {},
    recordsAtStart |-> None ]

\* runCalibration, lines 896-910: the record of a skipped calibration
SkipRecord ==
  [ version |-> CAR_VERIFICATION_VERSION, verified |-> TRUE, overrides |-> None,
    measured |-> Some([ zeroToHundredSec |-> None, zeroToHundredReached |-> FALSE,
                        topSpeedKph |-> None, topSpeedDurationSec |-> 0 ]),
    target |-> None, iterations |-> Some(0), note |-> Some(SkippedNote),
    error |-> None ]

\* runCalibration, line 984
VerdictOf(timedOut) == IF timedOut THEN FALSE ELSE TRUE

\* runCalibration, lines 982-1001: the record returned
CalibrationRecord(c, overrides) ==
  [ version |-> CAR_VERIFICATION_VERSION, verified |-> VerdictOf(c.timedOut),
    overrides |-> overrides,
    measured |-> Some([ zeroToHundredSec |-> c.measuredZero.timeSec,
                        zeroToHundredReached |-> c.measuredZero.reached,
                        topSpeedKph |-> c.measuredTop.maxSpeedKph,
                        topSpeedDurationSec |-> c.measuredTop.durationSec ]),
    target |-> Some(c.targets), iterations |-> Some(c.actualIterations),
    note |-> IF c.timedOut THEN Some(TimedOutNote(c.timeoutMs)) ELSE None,
    error |-> None ]

\* a variant that marks the spec as verified whatever the flag: C27 must notice it
markSpecVerified_m(spec, flag) == [spec EXCEPT !.performanceVerified = Some(TRUE)]

\* markSpecVerified(car, flag)
markSpecVerified(spec, flag) == [spec EXCEPT !.performanceVerified = Some(flag)]

\* isSpecMarkedVerified(car)
isSpecMarkedVerified(spec) == spec.performanceVerified = Some(TRUE)

\* a variant of cloneCarConfig that hands back the object it was given: C6
\* must notice it
cloneCarConfig_m(heap, ref) == [heap |-> heap, ref |-> ref]

\* cloneCarConfig(config): the heap with the copy in it, and the copy's reference
cloneCarConfig(heap, ref) == [heap |-> Append(heap, heap[ref]), ref |-> Len(heap) + 1]

\* a variant of the loop condition that allows one round more: C7 must notice it
LoopContinues_m(index, maxIterations) == index <= maxIterations

\* runCalibration, line 932: the loop condition
LoopContinues(index, maxIterations) == index < maxIterations

hasZeroToHundred == ~IsNone(cal.targets.zeroToHundredSec)
hasTopSpeed == ~IsNone(cal.targets.topSpeedKph)

\* runCalibration(car, { timeoutMs, maxIterations }), lines 891-931
BeginCalibration(id, timeoutMs, maxIterations) ==
  LET targets == extractTargets(specs[id])
      fresh == cloneCarConfig(<<createCarConfigFromSpec(specs[id], FALSE, None)>>, 1)
  IN  /\ obs' = [obs EXCEPT !.calibrated = @ \cup {id}, !.sawDeadline = FALSE,
                            !.carBuilt = FALSE, !.ticked = FALSE, !.roundConfig = None]
      /\ testCar' = None
      /\ meas' = IdleMeas
      /\ pastDeadline' = FALSE
      /\ IF IsNone(targets)
         THEN /\ specs' = [specs EXCEPT ![id] = markSpecVerified(@, TRUE)]
              /\ cal' = [IdleCal EXCEPT !.pc = "done", !.carId = id]
              /\ calResult' = Some(SkipRecord)
              /\ cfgHeap' = <<>>
         ELSE /\ specs' = specs
              /\ cal' = [IdleCal EXCEPT !.pc = "loop", !.carId = id,
                           !.timeoutMs = Max(0, timeoutMs),
                           !.maxIterations = Max(1, maxIterations),
                           !.targets = The(targets),
                           !.baseConfig = 1, !.workingConfig = fresh.ref]
              /\ calResult' = None
              /\ cfgHeap' = fresh.heap

\* the wall clock passes the deadline
ClockPassesDeadline ==
  /\ cal.pc \notin {"idle", "done", "thrown"}
  /\ ~pastDeadline
  /\ cal.pc \in {"measureZero", "measureTop"} => meas.time % ClockGrainTicks = 0
  /\ pastDeadline' = TRUE
  /\ UNCHANGED <<carVars, managerVars, cal, cfgHeap, testCar, meas, calResult, obs>>

\* lines 932-939: the loop condition and the deadline check at the top of a round
LoopTop ==
  /\ cal.pc = "loop"
  /\ IF ~LoopContinues(cal.index, cal.maxIterations)
     THEN /\ cal' = [cal EXCEPT !.pc = "finalZero", !.final = TRUE]
          /\ obs' = obs
     ELSE IF pastDeadline
     THEN /\ cal' = [cal EXCEPT !.pc = "finalZero", !.final = TRUE, !.timedOut = TRUE,
                                !.actualIterations = cal.index + 1]
          /\ obs' = [obs EXCEPT !.sawDeadline = TRUE]
     ELSE /\ cal' = [cal EXCEPT !.pc = "accel", !.actualIterations = cal.index + 1]
          /\ obs' = [obs EXCEPT !.roundConfig = Some(cfgHeap[cal.workingConfig])]
  /\ UNCHANGED <<carVars, managerVars, cfgHeap, testCar, meas, pastDeadline, calResult>>

\* createTestCar(config) and car.resetState at the head of a measurement; the
\* constructor may throw
BuildTestCar(nextPc) ==
  IF CarConstructorThrows(cfgHeap[cal.workingConfig])
  THEN /\ cal' = [cal EXCEPT !.pc = "thrown"]
       /\ UNCHANGED <<testCar, meas, obs>>
  ELSE /\ cal' = [cal EXCEPT !.pc = nextPc]
       /\ testCar' = Some(resetState(NewCar(cfgHeap[cal.workingConfig], FALSE), 0))
       /\ meas' = IdleMeas
       /\ obs' = [obs EXCEPT !.carBuilt = TRUE]

\* lines 941-943 and 967-971: measureZeroToHundred is entered, when that target is active
BeginZero ==
  /\ cal.pc \in {"accel", "finalZero"}
  /\ IF hasZeroToHundred
     THEN BuildTestCar("measureZero")
     ELSE /\ cal' = [cal EXCEPT !.pc = IF cal.final THEN "finalTop" ELSE "top",
                                !.accelClose = TRUE]
          /\ UNCHANGED <<testCar, meas, obs>>
  /\ UNCHANGED <<carVars, managerVars, cfgHeap, pastDeadline, calResult>>

\* measureZeroToHundred returns: lines 943 and 968
ZeroReturns(result) ==
  /\ cal' = [cal EXCEPT !.measuredZero = result,
                        !.pc = IF cal.final THEN "finalTop" ELSE "checkAccel"]
  /\ testCar' = None
  /\ meas' = IdleMeas

\* measureZeroToHundred, lines 1126-1130: the interpolated crossing time in ms,
\* time being the ticks before this one
CrossingTime(time, speed, previousSpeed) ==
  IF speed - previousSpeed > 0
  THEN time * 5 + clamp(Quot((10000 - previousSpeed) * 5, speed - previousSpeed), 0, 5)
  ELSE (time + 1) * 5

\* measureZeroToHundred, lines 1103-1143, after car.update(1, 0, 0, dt)
ZeroAfterUpdate(c1, speed) ==
  /\ obs' = [obs EXCEPT !.ticked = TRUE, !.tickedIds = @ \cup {cal.carId}]
  /\ IF speed >= 10000
     THEN ZeroReturns([ timeSec |-> Some(CrossingTime(meas.time, speed, meas.previousSpeed)),
                        reached |-> TRUE ])
     ELSE /\ testCar' = Some(c1)
          /\ meas' = [meas EXCEPT !.time = @ + 1, !.previousSpeed = speed]
          /\ cal' = cal

\* measureZeroToHundred, lines 1084-1151: one pass of the while loop
MeasureZeroTick ==
  /\ cal.pc = "measureZero"
  /\ IF ~(meas.time < ZeroMaxTicks)
     THEN /\ ZeroReturns([timeSec |-> Some(ZeroMaxTicks * 5), reached |-> FALSE])
          /\ obs' = obs
     ELSE IF pastDeadline
     THEN /\ ZeroReturns([timeSec |-> None, reached |-> FALSE])
          /\ obs' = [obs EXCEPT !.sawDeadline = TRUE]
     ELSE \E c1 \in {update(The(testCar), U, 0, 0, 200)} : ZeroAfterUpdate(c1, SpeedKph(c1))
  /\ UNCHANGED <<carVars, managerVars, cfgHeap, pastDeadline, calResult>>

\* lines 944-951: the acceleration check and adjustment of a round
CheckAccel ==
  /\ cal.pc = "checkAccel"
  /\ cal' = [cal EXCEPT !.pc = "top",
               !.accelClose = isWithinTolerance(cal.measuredZero.timeSec,
                                                cal.targets.zeroToHundredSec, 400)]
  /\ cfgHeap' =
       IF isWithinTolerance(cal.measuredZero.timeSec, cal.targets.zeroToHundredSec, 400)
       THEN cfgHeap
       ELSE [cfgHeap EXCEPT ![cal.workingConfig] =
               adjustAcceleration(@, cal.measuredZero.timeSec, cal.targets.zeroToHundredSec)]
  /\ UNCHANGED <<carVars, managerVars, testCar, meas, pastDeadline, calResult, obs>>

\* lines 953-955 and 973-978: measureTopSpeed is entered, when that target is active
BeginTop ==
  /\ cal.pc \in {"top", "finalTop"}
  /\ IF hasTopSpeed
     THEN BuildTestCar("measureTop")
     ELSE /\ cal' = [cal EXCEPT !.pc = IF cal.final THEN "finish" ELSE "roundEnd",
                                !.topClose = TRUE]
          /\ UNCHANGED <<testCar, meas, obs>>
  /\ UNCHANGED <<carVars, managerVars, cfgHeap, pastDeadline, calResult>>

\* measureTopSpeed returns: lines 955 and 974
TopReturns(maxSpeed, time) ==
  /\ cal' = [cal EXCEPT !.measuredTop = [maxSpeedKph |-> Some(maxSpeed),
                                         durationSec |-> time * 5],
                        !.pc = IF cal.final THEN "finish" ELSE "checkTop"]
  /\ testCar' = None
  /\ meas' = IdleMeas

\* measureTopSpeed, lines 1207-1215: maxSpeed and stableTime (in quarter ticks)
MaxSpeedAfter(speed) == IF speed > meas.maxSpeed + 5 THEN speed ELSE meas.maxSpeed
StableTimeAfter(speed) ==
  IF speed > meas.maxSpeed + 5 THEN 0
  ELSE IF Abs(speed - meas.maxSpeed) < 10 THEN meas.stableTime + 4
  ELSE meas.stableTime + 1

\* measureTopSpeed, lines 1194-1219, after car.update(1, 0, 0, dt)
TopAfterUpdate(c1, speed) ==
  /\ obs' = [obs EXCEPT !.ticked = TRUE, !.tickedIds = @ \cup {cal.carId}]
  /\ IF meas.time + 1 > TopMinTicks /\ StableTimeAfter(speed) >= SettleQuarterTicks
     THEN TopReturns(MaxSpeedAfter(speed), meas.time + 1)
     ELSE /\ testCar' = Some(c1)
          /\ meas' = [meas EXCEPT !.time = @ + 1, !.maxSpeed = MaxSpeedAfter(speed),
                                  !.stableTime = StableTimeAfter(speed)]
          /\ cal' = cal

\* measureTopSpeed, lines 1176-1232: one pass of the while loop
MeasureTopTick ==
  /\ cal.pc = "measureTop"
  /\ IF ~(meas.time < TopMaxTicks)
     THEN /\ TopReturns(meas.maxSpeed, meas.time)
          /\ obs' = obs
     ELSE IF pastDeadline
     THEN /\ TopReturns(meas.maxSpeed, meas.time)
          /\ obs' = [obs EXCEPT !.sawDeadline = TRUE]
     ELSE \E c1 \in {update(The(testCar), U, 0, 0, 200)} : TopAfterUpdate(c1, SpeedKph(c1))
  /\ UNCHANGED <<carVars, managerVars, cfgHeap, pastDeadline, calResult>>

\* lines 956-959: the top speed check and adjustment of a round
CheckTop ==
  /\ cal.pc = "checkTop"
  /\ cal' = [cal EXCEPT !.pc = "roundEnd",
               !.topClose = isWithinTolerance(cal.measuredTop.maxSpeedKph,
                                              cal.targets.topSpeedKph, 300)]
  /\ cfgHeap' =
       IF isWithinTolerance(cal.measuredTop.maxSpeedKph, cal.targets.topSpeedKph, 300)
       THEN cfgHeap
       ELSE [cfgHeap EXCEPT ![cal.workingConfig] =
               adjustTopSpeed(@, cal.measuredTop.maxSpeedKph, cal.targets.topSpeedKph)]
  /\ UNCHANGED <<carVars, managerVars, testCar, meas, pastDeadline, calResult, obs>>

\* lines 961-963 and the loop increment of line 932
RoundEnd ==
  /\ cal.pc = "roundEnd"
  /\ cal' = IF cal.accelClose /\ cal.topClose
            THEN [cal EXCEPT !.pc = "finalZero", !.final = TRUE]
            ELSE [cal EXCEPT !.pc = "loop", !.index = @ + 1]
  /\ UNCHANGED <<carVars, managerVars, cfgHeap, testCar, meas, pastDeadline, calResult, obs>>

\* lines 980-1001: computeOverrides and the returned record
Finish ==
  /\ cal.pc = "finish"
  /\ calResult' = Some(CalibrationRecord(cal,
                    computeOverrides(cfgHeap[cal.workingConfig], cfgHeap[cal.baseConfig])))
  /\ cfgHeap' = [cfgHeap EXCEPT ![cal.workingConfig] =
                   ConfigAfterOverrides(@, cfgHeap[cal.baseConfig])]
  /\ cal' = [cal EXCEPT !.pc = "done"]
  /\ UNCHANGED <<carVars, managerVars, testCar, meas, pastDeadline, obs>>

\* a step of a runCalibration call in progress
CalibrationStep ==
  \/ LoopTop
  \/ BeginZero
  \/ MeasureZeroTick
  \/ CheckAccel
  \/ BeginTop
  \/ MeasureTopTick
  \/ CheckTop
  \/ RoundEnd
  \/ Finish

(***************************************************************************)
(* verifyAllCars, step by step                                             *)
(***************************************************************************)
\* Map.get, Map.set and Map.delete on a Map held as a function
MapGet(map, key) == IF key \in DOMAIN map THEN Some(map[key]) ELSE None
MapSet(map, key, value) ==
  [k \in DOMAIN map \cup {key} |-> IF k = key THEN value ELSE map[k]]
MapDelete(map, key) == [k \in DOMAIN map \ {key} |-> map[k]]
EmptyMap == [k \in {} |-> 0]

\* the constructor, lines 572-578
NewManager == [records |-> EmptyMap, overrides |-> EmptyMap, initialized |-> FALSE]

IdleBatch ==
  [ pc |-> "idle", cars |-> <<>>, scanIdx |-> 1, pending |-> <<>>, processed |-> 0,
    changed |-> FALSE, limit |-> None, perCarTimeoutMs |-> 120000,
    maxIterations |-> 1, calls |-> 0, reloads |-> 0 ]

\* a variant of isRecordCurrent that does not look at the version
isRecordCurrent_m(record) == ~IsNone(record) /\ The(record).verified = TRUE

\* isRecordCurrent(record), record an Option
isRecordCurrent(record) ==
  /\ ~IsNone(record)
  /\ The(record).version = CAR_VERIFICATION_VERSION
  /\ The(record).verified = TRUE

\* applyRecordToSpec(car, record): the spec afterwards
applyRecordToSpec(spec, record) ==
  IF (spec.performanceVerified = Some(TRUE)) # (record.verified = TRUE)
  THEN [spec EXCEPT !.performanceVerified = Some(record.verified = TRUE)]
  ELSE spec

\* lines 744-748, 769-773 and 848-852: this.overrides follows record.overrides
OverridesAfter(overrides, id, record) ==
  IF ~IsNone(record.overrides) THEN MapSet(overrides, id, The(record.overrides))
  ELSE MapDelete(overrides, id)

\* JSON.stringify(payload): the text kept in localStorage for the records
JsonOf(entries) == [json |-> "object", entries |-> entries]

\* texts that JSON.parse rejects, or parses to a value that is not an object
NotJson == [json |-> "invalid", entries |-> EmptyMap]
JsonNumber == [json |-> "number", entries |-> EmptyMap]

\* an entry of the parsed object that is not an object (null, a number, a text)
NotAnObject == [primitive |-> TRUE]
isObjectEntry(entry) == "primitive" \notin DOMAIN entry

\* ensureInitializedSync, lines 676-684: the entries kept as records
StoredRecords(entries) ==
  [id \in {k \in DOMAIN entries : isObjectEntry(entries[k])} |-> entries[id]]

\* ensureInitializedSync, lines 671-684: the overrides map read from the stored records
StoredOverrides(stored) ==
  [id \in {k \in DOMAIN stored :
             isRecordCurrent(Some(stored[k])) /\ ~IsNone(stored[k].overrides)} |->
     The(stored[id].overrides)]

\* ensureInitializedSync(): the manager afterwards; a text that does not parse
\* throws inside the try block, whose handler clears both maps
ensureInitializedSync(m) ==
  IF m.initialized THEN m
  ELSE IF ~storage.supported \/ IsNone(storage.raw) THEN [m EXCEPT !.initialized = TRUE]
  ELSE IF The(storage.raw).json = "invalid"
    THEN [records |-> EmptyMap, overrides |-> EmptyMap, initialized |-> TRUE]
  ELSE IF The(storage.raw).json # "object" THEN [m EXCEPT !.initialized = TRUE]
  ELSE [ records |-> StoredRecords(The(storage.raw).entries),
         overrides |-> StoredOverrides(StoredRecords(The(storage.raw).entries)),
         initialized |-> TRUE ]

\* persist(): localStorage afterwards
persist(records) ==
  IF storage.supported THEN [storage EXCEPT !.raw = Some(JsonOf(records))] ELSE storage

\* getOverrides(carId) on an initialized manager
getOverrides(id) == MapGet(manager.overrides, id)

\* lines 754-767: the record written for a spec that carries the flag
FlagRecord(spec, existing) ==
  [ version |-> CAR_VERIFICATION_VERSION, verified |-> TRUE,
    overrides |-> IF IsNone(existing) THEN None ELSE The(existing).overrides,
    measured |-> IF IsNone(existing) THEN None ELSE The(existing).measured,
    target |-> IF IsNone(existing) \/ IsNone(The(existing).target)
               THEN extractTargets(spec) ELSE The(existing).target,
    iterations |-> IF IsNone(existing) \/ IsNone(The(existing).iterations)
                   THEN Some(0) ELSE The(existing).iterations,
    note |-> Some(FlagNote), error |-> None ]

\* lines 811-815 and 870-874: the record of a failure
FailureRecord(error) ==
  [ version |-> CAR_VERIFICATION_VERSION, verified |-> FALSE, overrides |-> None,
    measured |-> None, target |-> None, iterations |-> None, note |-> None,
    error |-> Some(error) ]

\* lines 778 and 883: the limit cuts the loop short
LimitReached(count) == ~IsNone(batch.limit) /\ count >= The(batch.limit)

\* verifyAllCars(cars, { limit, perCarTimeoutMs, maxIterations }), lines 708-731
VerifyAllCars(cars, limit, perCarTimeoutMs, maxIterations) ==
  /\ batch.pc \in {"idle", "returned"}
  /\ batch.calls < MaxCalls
  /\ manager' = ensureInitializedSync(manager)
  /\ batch' = [IdleBatch EXCEPT !.pc = IF cars = <<>> THEN "returned" ELSE "scan",
                 !.cars = cars,
                 !.limit = IF IsNone(limit) THEN None ELSE Some(Max(0, The(limit))),
                 !.perCarTimeoutMs = Max(0, perCarTimeoutMs),
                 !.maxIterations = Max(1, maxIterations),
                 !.calls = batch.calls + 1, !.reloads = batch.reloads]
  /\ obs' = [IdleObs EXCEPT !.recordsAtStart = Some(manager'.records)]
  /\ UNCHANGED <<carVars, specs, storage, specFile, calVars>>

\* line 34: Node has the file system and no localStorage, the browser the reverse
isNodeEnvironment == ~storage.supported

\* persistSpecFlag, line 635: the entry whose literal the pattern reaches from
\* id: "<id>", lazily across entry boundaries; 0 when it reaches none
LiteralReachedFrom(file, i) ==
  IF \A j \in i..Len(CatalogOrder) : IsNone(file[CatalogOrder[j]]) THEN 0
  ELSE CHOOSE j \in i..Len(CatalogOrder) :
         /\ ~IsNone(file[CatalogOrder[j]])
         /\ \A k \in i..(j - 1) : IsNone(file[CatalogOrder[k]])

PositionOf(id) == CHOOSE i \in 1..Len(CatalogOrder) : CatalogOrder[i] = id

\* persistSpecFlag(car, flag): carSpecs.js afterwards
persistSpecFlag(file, id, flag) ==
  IF ~isNodeEnvironment \/ LiteralReachedFrom(file, PositionOf(id)) = 0 THEN file
  ELSE [file EXCEPT ![CatalogOrder[LiteralReachedFrom(file, PositionOf(id))]] = Some(flag)]

\* lines 740-750: the stored record is used as it is
ScanKeeps(id, existing, specAfter) ==
  /\ specs' = [specs EXCEPT ![id] = specAfter]
  /\ manager' = [manager EXCEPT !.overrides = OverridesAfter(@, id, The(existing))]
  /\ specFile' = specFile
  /\ batch' = [batch EXCEPT !.scanIdx = @ + 1,
                            !.changed = @ \/ specAfter # specs[id]]

\* lines 752-775: the flag on the spec stands in for a calibration
ScanTrustsFlag(id, existing) ==
  /\ specs' = [specs EXCEPT ![id] = markSpecVerified(@, TRUE)]
  /\ manager' = [manager EXCEPT
                   !.records = MapSet(@, id, FlagRecord(specs[id], existing)),
                   !.overrides = OverridesAfter(@, id, FlagRecord(specs[id], existing))]
  /\ specFile' = persistSpecFlag(specFile, id, TRUE)
  /\ batch' = [batch EXCEPT !.scanIdx = @ + 1, !.changed = TRUE]

\* lines 777-780: the car is queued for calibration
ScanQueues(id, specAfter) ==
  /\ specs' = [specs EXCEPT ![id] = specAfter]
  /\ manager' = manager
  /\ specFile' = specFile
  /\ batch' = [batch EXCEPT !.pending = Append(@, id),
                 !.scanIdx = IF LimitReached(Len(batch.pending) + 1)
                             THEN Len(batch.cars) + 1 ELSE @ + 1]

\* a variant of line 740 that does not look at the flag on the spec: C3 must
\* notice it
UsableAsIs_m(existing, specIsVerified) == isRecordCurrent(existing)

\* line 740: the stored record stands without recalibration
UsableAsIs(existing, specIsVerified) == isRecordCurrent(existing) /\ specIsVerified

\* lines 732-781 for one car, its stored record and the flag seen on its spec
ScanOne(id, existing, specIsVerified) ==
  IF UsableAsIs(existing, specIsVerified)
  THEN ScanKeeps(id, existing, applyRecordToSpec(specs[id], The(existing)))
  ELSE IF specIsVerified
  THEN ScanTrustsFlag(id, existing)
  ELSE ScanQueues(id, IF IsNone(existing) THEN specs[id]
                      ELSE applyRecordToSpec(specs[id], The(existing)))

\* one pass of the scan loop, lines 732-781
ScanCar ==
  /\ batch.pc = "scan"
  /\ batch.scanIdx <= Len(batch.cars)
  /\ ScanOne(batch.cars[batch.scanIdx],
             MapGet(manager.records, batch.cars[batch.scanIdx]),
             isSpecMarkedVerified(specs[batch.cars[batch.scanIdx]]))
  /\ UNCHANGED <<carVars, storage, calVars, obs>>

\* lines 783-788: the scan is over
EndScan ==
  /\ batch.pc = "scan"
  /\ batch.scanIdx > Len(batch.cars)
  /\ IF batch.pending = <<>>
     THEN /\ batch' = [batch EXCEPT !.pc = "returned"]
          /\ storage' = IF batch.changed THEN persist(manager.records) ELSE storage
     ELSE /\ batch' = [batch EXCEPT !.pc = "process"]
          /\ storage' = storage
  /\ UNCHANGED <<carVars, specs, manager, specFile, calVars, obs>>

\* lines 796-806: the next pending car goes to runCalibration
BeginPending ==
  /\ batch.pc = "process"
  /\ batch.processed < Len(batch.pending)
  /\ BeginCalibration(batch.pending[batch.processed + 1],
                      batch.perCarTimeoutMs, batch.maxIterations)
  /\ batch' = [batch EXCEPT !.pc = "calibrating", !.processed = @ + 1]
  /\ UNCHANGED <<carVars, manager, storage, specFile>>

\* the record stored for the outcome of runCalibration: lines 811, 847 and 870
OutcomeRecord ==
  IF cal.pc = "thrown" THEN FailureRecord(ThrownError)
  ELSE IF IsNone(calResult) THEN FailureRecord(FailureError)
  ELSE The(calResult)

\* a variant in which a failed car ends the loop: C8 must notice it
AfterOutcome_m ==
  IF OutcomeRecord.verified # TRUE THEN "persist"
  ELSE IF LimitReached(batch.processed) THEN "persist"
  ELSE "process"

\* lines 809, 820 and 883: where the loop goes after this car
AfterOutcome ==
  IF cal.pc = "done" /\ OutcomeRecord.verified # TRUE THEN "process"
  ELSE IF LimitReached(batch.processed) THEN "persist"
  ELSE "process"

\* a variant that writes the store after every car: C24 must notice it
StoreOutcome_m ==
  /\ batch.pc = "calibrating"
  /\ cal.pc \in {"done", "thrown"}
  /\ manager' = [manager EXCEPT !.records = MapSet(@, cal.carId, OutcomeRecord)]
  /\ storage' = persist(MapSet(manager.records, cal.carId, OutcomeRecord))
  /\ specs' = [specs EXCEPT ![cal.carId] = markSpecVerified(@, OutcomeRecord.verified = TRUE)]
  /\ specFile' = specFile
  /\ batch' = [batch EXCEPT !.pc = AfterOutcome, !.changed = TRUE]
  /\ cal' = IdleCal
  /\ cfgHeap' = <<>>
  /\ calResult' = None
  /\ pastDeadline' = FALSE
  /\ UNCHANGED <<carVars, testCar, meas, obs>>

\* lines 808-885: the outcome of runCalibration is stored
StoreOutcome ==
  /\ batch.pc = "calibrating"
  /\ cal.pc \in {"done", "thrown"}
  /\ manager' = [manager EXCEPT
                   !.records = MapSet(@, cal.carId, OutcomeRecord),
                   !.overrides = IF OutcomeRecord.verified = TRUE
                                 THEN OverridesAfter(@, cal.carId, OutcomeRecord) ELSE @]
  /\ specs' = [specs EXCEPT ![cal.carId] = markSpecVerified(@, OutcomeRecord.verified = TRUE)]
  /\ specFile' = persistSpecFlag(specFile, cal.carId, OutcomeRecord.verified = TRUE)
  /\ batch' = [batch EXCEPT !.pc = AfterOutcome, !.changed = TRUE]
  /\ cal' = IdleCal
  /\ cfgHeap' = <<>>
  /\ calResult' = None
  /\ pastDeadline' = FALSE
  /\ UNCHANGED <<carVars, storage, testCar, meas, obs>>

\* line 888: the batch is over
EndBatch ==
  /\ \/ batch.pc = "persist"
     \/ batch.pc = "process" /\ batch.processed >= Len(batch.pending)
  /\ storage' = persist(manager.records)
  /\ batch' = [batch EXCEPT !.pc = "returned"]
  /\ UNCHANGED <<carVars, specs, manager, specFile, calVars, obs>>

\* the page is reloaded, or the script run again: carSpecs.js is loaded afresh
\* and line 1381 constructs a new manager
Reload ==
  /\ batch.pc = "returned"
  /\ batch.reloads < MaxReloads
  /\ specs' = LoadSpecs(specFile)
  /\ manager' = NewManager
  /\ batch' = [batch EXCEPT !.reloads = @ + 1]
  /\ UNCHANGED <<carVars, storage, specFile, calVars, obs>>

(***************************************************************************)
(* The game loop driving one car                                           *)
(***************************************************************************)
NoLiterals == [id \in CarIds |-> None]
Browser == [supported |-> TRUE, raw |-> None]
Node == [supported |-> FALSE, raw |-> None]

\* no pair of instances built, no helper called
IdlePair == [pc |-> "idle", instances |-> <<>>, a |-> 0, b |-> 0, tape |-> <<>>,
             doneA |-> 0, doneB |-> 0]
IdleProbe == [fn |-> "none", arg |-> <<>>, out |-> <<>>]

\* the Game once constructed: mode "driving", the player attached to the vehicle
IdleGame ==
  [mode |-> "driving", paused |-> FALSE, active |-> FALSE, attachedVehicle |-> "vehicle",
   near |-> TRUE]

CarIdle ==
  /\ car = NewCar(createCarConfigFromSpec(StockSpec, TRUE, None), FALSE)
  /\ held = [throttle |-> 0, brake |-> 0, steer |-> 0]
  /\ hz = 60
  /\ updates = 0
  /\ changes = 0
  /\ pair = IdlePair
  /\ probe = IdleProbe
  /\ game = IdleGame

ManagerIdle ==
  /\ specFile = NoLiterals
  /\ specs = LoadSpecs(NoLiterals)
  /\ manager = NewManager
  /\ storage = Browser
  /\ batch = IdleBatch

CalIdle ==
  /\ cal = IdleCal
  /\ cfgHeap = <<>>
  /\ testCar = None
  /\ meas = IdleMeas
  /\ pastDeadline = FALSE
  /\ calResult = None
  /\ obs = IdleObs

InitCar ==
  /\ \E spec \in DriveFixtures :
       car = NewCar(createCarConfigFromSpec(spec, TRUE, None), FALSE)
  /\ held \in Inputs
  /\ hz \in FrameRates
  /\ updates = 0
  /\ changes = 0
  /\ pair = IdlePair
  /\ probe = IdleProbe
  /\ game = IdleGame
  /\ ManagerIdle
  /\ CalIdle

\* one frame of the game loop: car.update(throttle, brake, steer, dt)
Drive ==
  /\ updates < MaxCarTicks
  /\ car' = update(car, held.throttle, held.brake, held.steer, hz)
  /\ updates' = updates + 1
  /\ UNCHANGED <<held, hz, changes, pair, probe, game, managerVars, calVars, obs>>

\* the driver changes the inputs
SetInputs ==
  /\ updates = InputChangeTick
  /\ changes < MaxInputChanges
  /\ \E in \in Inputs : in # held /\ held' = in
  /\ changes' = changes + 1
  /\ UNCHANGED <<car, hz, updates, pair, probe, game, managerVars, calVars, obs>>

NextCar == Drive \/ SetInputs

SpecCar == InitCar /\ [][NextCar]_vars

(***************************************************************************)
(* One runCalibration call                                                 *)
(***************************************************************************)
InitCal == CarIdle /\ ManagerIdle /\ CalIdle

\* runCalibration(car, { timeoutMs, maxIterations }) is called
RunCalibration ==
  /\ cal.pc = "idle"
  /\ \E id \in CarIds, timeoutMs \in TimeoutChoices, maxIterations \in 1..MaxRounds :
       BeginCalibration(id, timeoutMs, maxIterations)
  /\ UNCHANGED <<carVars, manager, storage, specFile, batch>>

NextCal == RunCalibration \/ CalibrationStep \/ ClockPassesDeadline

SpecCal == InitCal /\ [][NextCal]_vars

(***************************************************************************)
(* One measurement: measureZeroToHundred or measureTopSpeed on its own     *)
(***************************************************************************)
\* a heavy vehicle that is still gaining speed after 160 s of full throttle
HeavySpec == [BlankSpec EXCEPT !.id = Some("heavy"), !.massKg = Some(30000)]

\* configs handed to a measurement
MeasuredSpecs == {StockSpec, HeavySpec}

\* measureZeroToHundred(config, options) or measureTopSpeed(config, options)
\* has built its test car and reset it; the clock may pass options.deadlineMs
InitMeasure ==
  /\ CarIdle
  /\ ManagerIdle
  /\ \E pc \in {"measureZero", "measureTop"} :
       cal = [IdleCal EXCEPT !.pc = pc, !.final = TRUE]
  /\ cfgHeap = <<>>
  /\ \E spec \in MeasuredSpecs :
       testCar = Some(resetState(NewCar(createCarConfigFromSpec(spec, FALSE, None),
                                        FALSE), 0))
  /\ meas = IdleMeas
  /\ pastDeadline = FALSE
  /\ calResult = None
  /\ obs = IdleObs

NextMeasure == MeasureZeroTick \/ MeasureTopTick \/ ClockPassesDeadline

SpecMeasure == InitMeasure /\ [][NextMeasure]_vars

(***************************************************************************)
(* Sessions of verifyAllCars calls                                         *)
(***************************************************************************)
\* carSpecs.js as shipped: without performanceVerified literals, or with some
FlaggedLiterals == [NoLiterals EXCEPT !["sprint"] = Some(TRUE), !["plain"] = Some(FALSE)]

\* CAR_CATALOG, the cars handed to verifyAllCars in every call of a session,
\* and the limit option
CarLists == {<<"sprint", "broken", "plain">>, <<"broken", "winged">>}
Limits == {None, Some(1)}

InitVerify ==
  /\ CarIdle
  /\ CalIdle
  /\ \E session \in {<<Browser, NoLiterals>>, <<Browser, FlaggedLiterals>>,
                      <<Node, FlaggedLiterals>>} :
       storage = session[1] /\ specFile = session[2]
  /\ specs = LoadSpecs(specFile)
  /\ manager = NewManager
  /\ \E cars \in CarLists : batch = [IdleBatch EXCEPT !.cars = cars]

\* verifyAllCars(CAR_CATALOG, calibrationOptions) is called
CallVerifyAllCars ==
  \E limit \in Limits :
    VerifyAllCars(batch.cars, limit, 120000, MaxRounds)

NextVerify ==
  \/ CallVerifyAllCars
  \/ ScanCar
  \/ EndScan
  \/ BeginPending
  \/ CalibrationStep
  \/ ClockPassesDeadline
  \/ StoreOutcome
  \/ EndBatch
  \/ Reload

SpecVerify == InitVerify /\ [][NextVerify]_vars

(***************************************************************************)
(* Two Car instances built from one config                                 *)
(***************************************************************************)
\* ticks fed to each instance of a pair
MaxPairTicks == 3

\* the (throttle, brake, steer, dt) tuples fed to a pair, dt as ticks per second
PairInputs ==
  { [throttle |-> U, brake |-> 0, steer |-> U, hz |-> 60],
    [throttle |-> U, brake |-> U, steer |-> 0, hz |-> 200],
    [throttle |-> -U, brake |-> 0, steer |-> -U, hz |-> 60],
    [throttle |-> 0, brake |-> U, steer |-> 0, hz |-> 30] }

\* a variant of the constructor that hands out one instance to every caller
constructCar_m(instances, config, manualMode) ==
  [instances |-> IF instances = <<>> THEN <<NewCar(config, manualMode)>> ELSE instances,
   ref |-> 1]

\* new Car(config, options): a new object, with its own vectors, tires and
\* coefficient arrays, among the instances alive
constructCar(instances, config, manualMode) ==
  [instances |-> Append(instances, NewCar(config, manualMode)),
   ref |-> Len(instances) + 1]

\* the pair once the second instance has been constructed after the first
PairBuilt(first, config) ==
  [IdlePair EXCEPT !.pc = "built",
                   !.instances = constructCar(first.instances, config, FALSE).instances,
                   !.a = first.ref,
                   !.b = constructCar(first.instances, config, FALSE).ref]

\* two instances are constructed from the same config
BuildPair ==
  /\ pair.pc = "idle"
  /\ \E spec \in DriveFixtures :
       pair' = PairBuilt(constructCar(<<>>, createCarConfigFromSpec(spec, TRUE, None), FALSE),
                         createCarConfigFromSpec(spec, TRUE, None))
  /\ UNCHANGED <<car, held, hz, updates, changes, probe, game, managerVars, calVars, obs>>

\* the input of an instance's next tick: the next one on the tape, or a new one
NextInputs(done) ==
  IF done < Len(pair.tape) THEN {pair.tape[done + 1]}
  ELSE IF Len(pair.tape) < MaxPairTicks THEN PairInputs ELSE {}

\* the tape once the instance that had taken done ticks has taken input in
TapeAfter(done, in) == IF done < Len(pair.tape) THEN pair.tape ELSE Append(pair.tape, in)

\* update is called on the instance at ref
Stepped(ref, in) ==
  [pair.instances EXCEPT ![ref] = update(@, in.throttle, in.brake, in.steer, in.hz)]

\* the first instance takes a tick
StepA ==
  /\ pair.pc = "built"
  /\ \E in \in NextInputs(pair.doneA) :
       pair' = [pair EXCEPT !.instances = Stepped(pair.a, in),
                            !.tape = TapeAfter(pair.doneA, in),
                            !.doneA = @ + 1]
  /\ UNCHANGED <<car, held, hz, updates, changes, probe, game, managerVars, calVars, obs>>

\* the second instance takes a tick
StepB ==
  /\ pair.pc = "built"
  /\ \E in \in NextInputs(pair.doneB) :
       pair' = [pair EXCEPT !.instances = Stepped(pair.b, in),
                            !.tape = TapeAfter(pair.doneB, in),
                            !.doneB = @ + 1]
  /\ UNCHANGED <<car, held, hz, updates, changes, probe, game, managerVars, calVars, obs>>

InitPair == CarIdle /\ ManagerIdle /\ CalIdle

NextPair == BuildPair \/ StepA \/ StepB

SpecPair == InitPair /\ [][NextPair]_vars

(***************************************************************************)
(* A driven car: update, shifts, resetState and restoreState               *)
(***************************************************************************)
\* ticks of one drive
MaxDriveTicks == 6
\* the tick after which the driver may change the pedals or the car is reset
DriveChangeTick == 2
\* pedal changes, resets and restores of one drive
MaxDriveChanges == 2

\* a car with two forward ratios
ShortBoxSpec ==
  [BlankSpec EXCEPT !.id = Some("shortbox"), !.gearRatios = Some(<<0, 300, 180>>)]

\* a car whose rev limiter is configured below the idle speed of 900 rpm
LowLimiterSpec == [BlankSpec EXCEPT !.id = Some("lowlimiter"), !.revLimiterRpm = Some(800)]

DrivenSpecs == {StockSpec, ShortBoxSpec, LowLimiterSpec}

\* dt of a frame as ticks per second: Game.loop passes the frame time on,
\* clamped to [0, 0.1] seconds
DriveFrameRates == {30, 60}

\* the pedals and the steering held during a frame
DriveInputs ==
  { [throttle |-> U, brake |-> 0, steer |-> U],
    [throttle |-> -U, brake |-> 0, steer |-> 0],
    [throttle |-> 0, brake |-> U, steer |-> -U],
    [throttle |-> 0, brake |-> 0, steer |-> -U] }

\* a state saved by serializeState while the car, in automatic mode, travelled
\* at 3 m/s turning towards negative headings, its heading just above -pi
SpinningSave ==
  [ position |-> Some(<<0, 0>>), heading |-> Some(-3141000),
    velocity |-> Some(<<-3000000, 0>>), angularVelocity |-> Some(-500000),
    steerAngle |-> Some(0), engineRpm |-> Some(3000), throttle |-> Some(0),
    brake |-> Some(0), gearIndex |-> Some(1), reverseMode |-> FALSE,
    manualMode |-> FALSE, lastLongitudinalAccel |-> Some(0),
    lastLateralAccel |-> Some(0) ]

\* a state saved at rest in automatic reverse, by a car with a higher limiter
ReversingSave ==
  [ SpinningSave EXCEPT !.heading = Some(0), !.velocity = Some(<<0, 0>>),
                        !.angularVelocity = Some(0), !.engineRpm = Some(20000),
                        !.reverseMode = TRUE ]

\* a state saved in manual reverse gear whose numbers did not survive storage
ManualSave ==
  [ position |-> None, heading |-> None, velocity |-> None, angularVelocity |-> None,
    steerAngle |-> None, engineRpm |-> None, throttle |-> None, brake |-> None,
    gearIndex |-> Some(-1), reverseMode |-> TRUE, manualMode |-> TRUE,
    lastLongitudinalAccel |-> None, lastLateralAccel |-> None ]

\* a state saved in second gear by an automatic car coasting at 0.1 m/s
CruisingSave ==
  [ SpinningSave EXCEPT !.heading = Some(0), !.velocity = Some(<<100000, 0>>),
                        !.angularVelocity = Some(0), !.gearIndex = Some(2) ]

\* restoreState() with the default argument {}: no field is present
BlankSave ==
  [ ManualSave EXCEPT !.gearIndex = None, !.reverseMode = FALSE, !.manualMode = FALSE ]

SavedStates == {SpinningSave, ReversingSave, ManualSave, CruisingSave, BlankSave}

\* state.transmissionMode of a saved vehicle: missing, or a string
TransmissionModes == {None, Some("manual"), Some("auto")}

\* the last method called on the car, its argument and the value it returned
Called(fn, arg, out) == [fn |-> fn, arg |-> arg, out |-> out]

InitDrive ==
  /\ \E spec \in DrivenSpecs, manualMode \in BOOLEAN :
       car = NewCar(createCarConfigFromSpec(spec, TRUE, None), manualMode)
  /\ held \in DriveInputs
  /\ hz \in DriveFrameRates
  /\ updates = 0
  /\ changes = 0
  /\ pair = IdlePair
  /\ probe = IdleProbe
  /\ game = IdleGame
  /\ ManagerIdle
  /\ CalIdle

\* one frame: car.update(throttle, brake, steer, dt)
DriveTick ==
  /\ updates < MaxDriveTicks
  /\ car' = update(car, held.throttle, held.brake, held.steer, hz)
  /\ updates' = updates + 1
  /\ probe' = Called("update", <<car.heading, car.throttle, car.reverseMode,
                                 Kinematics(car).vLong, car.gearIndex>>, <<>>)
  /\ UNCHANGED <<held, hz, changes, pair, game, managerVars, calVars, obs>>

\* the driver changes the pedals or the steering
PressPedals ==
  /\ updates = DriveChangeTick
  /\ changes < MaxDriveChanges
  /\ \E in \in DriveInputs : in # held /\ held' = in
  /\ changes' = changes + 1
  /\ UNCHANGED <<car, hz, updates, pair, probe, game, managerVars, calVars, obs>>

\* car.shiftUp(), the gearbox being tried before the drive
ShiftUp ==
  /\ updates = 0
  /\ car' = shiftUp(car).car
  /\ probe' = Called("shiftUp", <<car.gearIndex, car.reverseMode>>, <<shiftUp(car).result>>)
  /\ UNCHANGED <<held, hz, updates, changes, pair, game, managerVars, calVars, obs>>

\* car.shiftDown(), the gearbox being tried before the drive
ShiftDown ==
  /\ updates = 0
  /\ car' = shiftDown(car).car
  /\ probe' = Called("shiftDown", <<car.gearIndex, car.reverseMode>>,
                     <<shiftDown(car).result>>)
  /\ UNCHANGED <<held, hz, updates, changes, pair, game, managerVars, calVars, obs>>

\* car.resetState({ position: {x: 0, y: 0}, heading: 0 })
ResetState ==
  /\ updates = DriveChangeTick
  /\ changes < MaxDriveChanges
  /\ car' = resetState(car, 0)
  /\ changes' = changes + 1
  /\ probe' = Called("resetState", <<>>, <<>>)
  /\ UNCHANGED <<held, hz, updates, pair, game, managerVars, calVars, obs>>

\* car.restoreState(state) with a saved state, loaded before the drive
RestoreState ==
  /\ updates = 0
  /\ changes < MaxDriveChanges
  /\ \E state \in SavedStates : car' = restoreState(car, state)
  /\ changes' = changes + 1
  /\ probe' = Called("restoreState", <<>>, <<>>)
  /\ UNCHANGED <<held, hz, updates, pair, game, managerVars, calVars, obs>>

\* vehicle.setTransmissionMode(mode), which calls car.setManualMode
SetTransmissionMode ==
  /\ updates = 0
  /\ changes < MaxDriveChanges
  /\ \E mode \in {"manual", "auto"} :
       /\ car' = setTransmissionMode(car, mode)
       /\ probe' = Called("setTransmissionMode", <<mode>>, <<>>)
  /\ changes' = changes + 1
  /\ UNCHANGED <<held, hz, updates, pair, game, managerVars, calVars, obs>>

\* vehicle.restoreState(state) with a saved vehicle, loaded before the drive
VehicleRestoreState ==
  /\ updates = 0
  /\ changes < MaxDriveChanges
  /\ \E state \in SavedStates, transmissionMode \in TransmissionModes :
       car' = vehicleRestoreState(car, state, transmissionMode)
  /\ changes' = changes + 1
  /\ probe' = Called("restoreState", <<>>, <<>>)
  /\ UNCHANGED <<held, hz, updates, pair, game, managerVars, calVars, obs>>

NextDrive ==
  \/ DriveTick \/ PressPedals \/ ShiftUp \/ ShiftDown \/ ResetState \/ RestoreState
  \/ SetTransmissionMode \/ VehicleRestoreState

SpecDrive == InitDrive /\ [][NextDrive]_vars

(***************************************************************************)
(* main.js: the Game, driven and walked frame by frame                     *)
(***************************************************************************)
MaxGameTicks == 4
MaxGameChanges == 2

\* the frames arrive 0.1 s apart or more: delta is clamped to 0.1
GameFrameRates == {10}

\* the key whose request the frame consumes, if any
GameKeys == {"none", "pause", "reset", "interact", "transmission"}

\* input.state while a frame runs
GameInputs == {ZERO_INPUT, [ZERO_INPUT EXCEPT !.forward = TRUE]}

\* the saves applySaveState is given: with or without a vehicle, which
\* serializeState saved with its transmissionMode
GameSaves ==
  [ mode : {"onFoot", "driving"},
    vehicle : {None, Some(<<SpinningSave, Some("auto")>>)},
    near : BOOLEAN ]

InitGame ==
  /\ car = NewCar(createCarConfigFromSpec(StockSpec, TRUE, None), FALSE)
  /\ held = [throttle |-> 0, brake |-> 0, steer |-> 0]
  /\ hz \in GameFrameRates
  /\ updates = 0
  /\ changes = 0
  /\ pair = IdlePair
  /\ probe = IdleProbe
  /\ game = IdleGame
  /\ ManagerIdle
  /\ CalIdle

\* Player.update(input, dt, bounds): an attached player is synced with the
\* vehicle; a walking one may step into or out of reach of the vehicle
PlayerUpdates(g, input) ==
  IF g.active /\ input # ZERO_INPUT
    THEN {[g EXCEPT !.near = near] : near \in BOOLEAN}
    ELSE {g}

\* Game.loop(timestamp), one frame; while the game is paused no key but the
\* pause key is pressed.  probe.arg is the key and the vehicle's speed before
\* the frame, probe.out the vehicle's velocity once the key was handled
GameLoop ==
  /\ updates < MaxGameTicks
  /\ \E key \in GameKeys, state \in GameInputs :
       LET toggled == IF key = "pause" THEN togglePause(game) ELSE game
           afterReset == IF key = "reset" THEN resetVehicle(toggled, car)
                         ELSE World(toggled, car)
           afterInteract == IF key = "interact"
                              THEN handleInteract(afterReset.game, afterReset.car)
                              ELSE afterReset
           shifted == IF key = "transmission" THEN toggleTransmissionMode(afterInteract.car)
                      ELSE afterInteract.car
           driving == afterInteract.game.mode = "driving"
           vehicleInput == IF driving THEN state ELSE ZERO_INPUT
           playerInput == IF driving THEN ZERO_INPUT ELSE state
       IN  /\ game.paused => key \in {"none", "pause"}
           /\ probe' = Called("loop", <<key, getSpeedPixelsPerSecond(car)>>,
                              <<afterInteract.car.velocity>>)
           /\ IF toggled.paused
                THEN game' = toggled /\ car' = car
                ELSE /\ car' = vehicleUpdate(shifted, vehicleInput, hz)
                     /\ game' \in PlayerUpdates(afterInteract.game, playerInput)
  /\ updates' = updates + 1
  /\ UNCHANGED <<held, hz, changes, pair, managerVars, calVars, obs>>

\* the reset button is clicked: game.resetVehicle({ preserveCollisions: false })
ResetButton ==
  /\ changes < MaxGameChanges
  /\ game' = resetVehicle(game, car).game
  /\ car' = resetVehicle(game, car).car
  /\ probe' = Called("resetVehicle", <<"reset", getSpeedPixelsPerSecond(car)>>,
                     <<resetVehicle(game, car).car.velocity>>)
  /\ changes' = changes + 1
  /\ UNCHANGED <<held, hz, updates, pair, managerVars, calVars, obs>>

\* game.applySaveState(save)
ApplySaveState ==
  /\ changes < MaxGameChanges
  /\ \E save \in GameSaves :
       /\ game' = applySaveState(game, car, save).game
       /\ car' = applySaveState(game, car, save).car
       /\ probe' = Called("applySaveState", <<"load", getSpeedPixelsPerSecond(car)>>,
                          <<applySaveState(game, car, save).car.velocity>>)
  /\ changes' = changes + 1
  /\ UNCHANGED <<held, hz, updates, pair, managerVars, calVars, obs>>

NextGame == GameLoop \/ ResetButton \/ ApplySaveState

SpecGame == InitGame /\ [][NextGame]_vars

(***************************************************************************)
(* main.js: the pure helpers, each called once on its own                  *)
(***************************************************************************)
\* values a spec may carry in a scalar field: absent, a number, not finite
MassChoices == <<None, Some(1200), Some(NaN)>>
LimiterChoices == <<None, Some(6500), Some(Infinity)>>

\* values a spec may carry in a grip or brake torque field
GripChoices ==
  << None,
     Some(Array(<<9000>>)),
     Some(Array(<<9000, 9500>>)),
     Some(Array(<<9000, 9500, 10000>>)),
     Some(Array(<<9000, 9500, 10000, 10500, 11000>>)),
     Some(Array(<<9000, NaN, 9500>>)),
     Some(Array(<<>>)),
     Some(Text(<<NumberToken(9000), Delimiter, NumberToken(9500), Delimiter>>)),
     Some(Text(<<NumberToken(9000), Delimiter, Word, Delimiter, NumberToken(9600)>>)),
     Some(Scalar(9800)),
     Some(Scalar(NaN)) >>
LateralChoices == <<None, Some(Array(<<12000, 12500>>)), Some(Scalar(Infinity))>>
TorqueChoices == <<None, Some(Array(<<4000, 3000>>)), Some(Text(<<NumberToken(3500)>>))>>

\* values a spec may carry as gearRatios
RatioChoices == <<None, Some(<<>>), Some(<<0, 300, 180>>), Some(<<354, 212>>)>>

\* the spec made of one choice for each field
ChosenSpec(m, r, g, l, b, q) ==
  [BlankSpec EXCEPT !.massKg = MassChoices[m], !.revLimiterRpm = LimiterChoices[r],
                    !.tireGrips = GripChoices[g], !.tireGripLat = LateralChoices[l],
                    !.brakeTorquePerWheelNm = TorqueChoices[b],
                    !.gearRatios = RatioChoices[q]]

\* createCarConfigFromSpec(spec, { applyOverrides: false })
CallCreateCarConfigFromSpec ==
  /\ probe = IdleProbe
  /\ \E m \in DOMAIN MassChoices, r \in DOMAIN LimiterChoices, g \in DOMAIN GripChoices,
        l \in DOMAIN LateralChoices, b \in DOMAIN TorqueChoices, q \in DOMAIN RatioChoices :
       probe' = Called("createCarConfigFromSpec", <<ChosenSpec(m, r, g, l, b, q)>>,
                       <<createCarConfigFromSpec(ChosenSpec(m, r, g, l, b, q), FALSE, None)>>)
  /\ UNCHANGED <<car, held, hz, updates, changes, pair, game, managerVars, calVars, obs>>

\* ensureGearRatios(ratios) and ensureGearRatios(ensureGearRatios(ratios))
CallEnsureGearRatios ==
  /\ probe = IdleProbe
  /\ \E q \in DOMAIN RatioChoices :
       probe' = Called("ensureGearRatios", <<RatioChoices[q]>>,
                       <<ensureGearRatios(RatioChoices[q]),
                         ensureGearRatios(Some(ensureGearRatios(RatioChoices[q])))>>)
  /\ UNCHANGED <<car, held, hz, updates, changes, pair, game, managerVars, calVars, obs>>

\* the performance keys a container of the fixtures may hold
FixtureKeys == {"topSpeedKph", "topSpeedMph", "zeroToHundredSec", "zeroTo60"}

\* what a container may hold at a key: a number or a value that is not numeric
FixtureValue(key, good) ==
  IF ~good THEN NotANumber
  ELSE IF key = "topSpeedKph" THEN Some(25000)
  ELSE IF key = "topSpeedMph" THEN Some(15500)
  ELSE IF key = "zeroToHundredSec" THEN Some(5200)
  ELSE Some(4000)

\* the containers with the keys present and those among them that are numeric
FixtureContainer(present, numeric) ==
  [key \in present |-> FixtureValue(key, key \in numeric)]

\* nested containers: none, and ones whose values differ from the spec's own
NestedChoices ==
  << None,
     Some([k \in {"topSpeed"} |-> Some(31000)]),
     Some([k \in {"topSpeedMPH", "zeroToSixty"} |->
             IF k = "topSpeedMPH" THEN Some(12000) ELSE Some(6000)]),
     Some([k \in {"vMaxKph", "zeroTo100"} |-> Some(0)]) >>

\* extractTargets(spec)
CallExtractTargets ==
  /\ probe = IdleProbe
  /\ \E present \in SUBSET FixtureKeys, n \in DOMAIN NestedChoices :
       \E numeric \in SUBSET present :
         \E where \in {"performance", "stats"} :
           LET spec == [BlankSpec EXCEPT !.own = FixtureContainer(present, numeric),
                                         ![where] = NestedChoices[n]]
           IN  probe' = Called("extractTargets", <<spec>>, <<extractTargets(spec)>>)
  /\ UNCHANGED <<car, held, hz, updates, changes, pair, game, managerVars, calVars, obs>>

\* configs handed to the adjustments
TunedConfigs ==
  { defaultCarConfig,
    [defaultCarConfig EXCEPT !.drivetrainEfficiency = 650000,
                             !.rollingResistanceCoeff = 28000,
                             !.dragCoefficient = 200000] }

\* measured and target 0-100 km/h times, ms
TimesMs == {None, Some(0), Some(3000), Some(5000), Some(9000)}

\* measured and target top speeds, 1/100 km/h
SpeedsKph == {None, Some(0), Some(18000), Some(25000), Some(33000)}

\* adjustAcceleration(config, measuredSec, targetSec)
CallAdjustAcceleration ==
  /\ probe = IdleProbe
  /\ \E config \in TunedConfigs, measured \in TimesMs, target \in TimesMs :
       probe' = Called("adjustAcceleration", <<config, measured, target>>,
                       <<adjustAcceleration(config, measured, target)>>)
  /\ UNCHANGED <<car, held, hz, updates, changes, pair, game, managerVars, calVars, obs>>

\* adjustTopSpeed(config, measuredKph, targetKph)
CallAdjustTopSpeed ==
  /\ probe = IdleProbe
  /\ \E config \in TunedConfigs, measured \in SpeedsKph, target \in SpeedsKph :
       probe' = Called("adjustTopSpeed", <<config, measured, target>>,
                       <<adjustTopSpeed(config, measured, target)>>)
  /\ UNCHANGED <<car, held, hz, updates, changes, pair, game, managerVars, calVars, obs>>

InitHelpers == CarIdle /\ ManagerIdle /\ CalIdle

NextHelpers ==
  \/ CallCreateCarConfigFromSpec
  \/ CallEnsureGearRatios
  \/ CallExtractTargets
  \/ CallAdjustAcceleration
  \/ CallAdjustTopSpeed

SpecHelpers == InitHelpers /\ [][NextHelpers]_vars

(***************************************************************************)
(* main.js: a working config adjusted over and over                        *)
(***************************************************************************)
MaxTuneCalls == 3

\* working configs at the start of a calibration: the defaults, and the three
\* tuned parameters at the lower and at the upper ends of their ranges
StartConfigs ==
  { defaultCarConfig,
    [defaultCarConfig EXCEPT !.dragCoefficient = 160000,
                             !.drivetrainEfficiency = 600000,
                             !.rollingResistanceCoeff = 4500],
    [defaultCarConfig EXCEPT !.dragCoefficient = 900000,
                             !.drivetrainEfficiency = 1000000,
                             !.rollingResistanceCoeff = 30000] }

\* measured and target 0-100 km/h times, ms, None for a value that is not finite
TuneTimesMs == {None, Some(-2000), Some(0), Some(2000), Some(9000)}

\* measured and target top speeds, 1/100 km/h
TuneSpeedsKph == {None, Some(-18000), Some(0), Some(18000), Some(33000)}

\* probe.out[1] holds the working config
InitTune ==
  /\ car = NewCar(createCarConfigFromSpec(StockSpec, TRUE, None), FALSE)
  /\ held = [throttle |-> 0, brake |-> 0, steer |-> 0]
  /\ hz = 60
  /\ updates = 0
  /\ changes = 0
  /\ pair = IdlePair
  /\ \E config \in StartConfigs : probe = Called("config", <<>>, <<config>>)
  /\ game = IdleGame
  /\ ManagerIdle
  /\ CalIdle

\* adjustAcceleration(config, measuredSec, targetSec) on the working config
TuneAcceleration ==
  /\ updates < MaxTuneCalls
  /\ \E measured \in TuneTimesMs, target \in TuneTimesMs :
       probe' = Called("adjustAcceleration", <<measured, target>>,
                       <<adjustAcceleration(probe.out[1], measured, target)>>)
  /\ updates' = updates + 1
  /\ UNCHANGED <<car, held, hz, changes, pair, game, managerVars, calVars, obs>>

\* adjustTopSpeed(config, measuredKph, targetKph) on the working config
TuneTopSpeed ==
  /\ updates < MaxTuneCalls
  /\ \E measured \in TuneSpeedsKph, target \in TuneSpeedsKph :
       probe' = Called("adjustTopSpeed", <<measured, target>>,
                       <<adjustTopSpeed(probe.out[1], measured, target)>>)
  /\ updates' = updates + 1
  /\ UNCHANGED <<car, held, hz, changes, pair, game, managerVars, calVars, obs>>

NextTune == TuneAcceleration \/ TuneTopSpeed

SpecTune == InitTune /\ [][NextTune]_vars

(***************************************************************************)
(* The calibration store as found in localStorage                          *)
(***************************************************************************)
\* a stored record with overrides, under a version and a verdict
TunedRecord(version, verified) ==
  [ version |-> version, verified |-> verified,
    overrides |-> Some([dragCoefficient |-> Some(300000), rollingResistanceCoeff |-> None,
                        drivetrainEfficiency |-> None]),
    measured |-> None, target |-> None, iterations |-> Some(1), note |-> None,
    error |-> None ]

\* the entries of two cars
EntriesOf(plain, broken) == [id \in {"plain", "broken"} |-> IF id = "plain" THEN plain ELSE broken]

\* what localStorage may hold when the manager first reads it
StoreChoices ==
  << NotJson,
     JsonNumber,
     JsonOf(EmptyMap),
     JsonOf(EntriesOf(TunedRecord(1, TRUE), TunedRecord(1, TRUE))),
     JsonOf(EntriesOf(NotAnObject, TunedRecord(1, TRUE))),
     JsonOf(EntriesOf(TunedRecord(0, TRUE), TunedRecord(1, TRUE))),
     JsonOf(EntriesOf(TunedRecord(1, FALSE), NotAnObject)),
     JsonOf(EntriesOf(TunedRecord(1, TRUE), TunedRecord(2, FALSE))) >>

\* the cars handed to verifyAllCars
StoreCarLists == {<<"plain", "broken">>, <<"broken", "plain">>}

InitStore ==
  /\ CarIdle
  /\ CalIdle
  /\ \E i \in DOMAIN StoreChoices : storage = [supported |-> TRUE, raw |-> Some(StoreChoices[i])]
  /\ specFile \in {NoLiterals, [NoLiterals EXCEPT !["plain"] = Some(TRUE)]}
  /\ specs = LoadSpecs(specFile)
  /\ manager = NewManager
  /\ \E cars \in StoreCarLists : batch = [IdleBatch EXCEPT !.cars = cars]

\* getOverrides(carId), which reads the store if nothing has read it yet
CallGetOverrides ==
  /\ batch.pc = "idle"
  /\ \E id \in {"plain", "broken"} :
       /\ manager' = ensureInitializedSync(manager)
       /\ probe' = Called("getOverrides", <<id>>, <<MapGet(manager'.overrides, id)>>)
  /\ UNCHANGED <<car, held, hz, updates, changes, pair, game, specs, storage, specFile, batch,
                 calVars, obs>>

NextStore == CallGetOverrides \/ CallVerifyAllCars \/ ScanCar \/ EndScan

SpecStore == InitStore /\ [][NextStore]_vars

(***************************************************************************)
(* verifyAllCars on a store found in localStorage, under a limit           *)
(***************************************************************************)
\* options.limit: absent, or a number (already floored)
BatchLimits == {None, Some(-1), Some(0), Some(1), Some(2)}

\* verifyAllCars(cars, { limit })
CallVerifyAllCarsLimited ==
  \E limit \in BatchLimits :
    VerifyAllCars(batch.cars, limit, 120000, MaxRounds)

\* the cars of this store have no targets, or a constructor that throws at the
\* head of the first measurement: their calibrations take no tick
NextBatch ==
  \/ CallVerifyAllCarsLimited
  \/ ScanCar
  \/ EndScan
  \/ BeginPending
  \/ LoopTop
  \/ BeginZero
  \/ ClockPassesDeadline
  \/ StoreOutcome
  \/ EndBatch

SpecBatch == InitStore /\ [][NextBatch]_vars

(***************************************************************************)
(* Properties of Car.update, checked under SpecCar                         *)
(***************************************************************************)
\* the tolerance of the friction ellipse: 1 + epsilon with epsilon = 0.01
EllipseEps == U \div 100

\* wheel i's stored force lies in the ellipse whose half-axes are its grip
\* coefficients times its normal load; an unloaded wheel carries no force
WheelWithinEllipse(i) ==
  IF MulDiv(car.tires[i].normalLoad, car.longitudinalGripCoeffs[i], U) <= 0
     \/ MulDiv(car.tires[i].normalLoad, car.lateralGripCoeffs[i], U) <= 0
  THEN car.tires[i].combinedForce = <<0, 0>>
  ELSE Hypot(Quot(Abs(car.tires[i].combinedForce[1]) * U,
                  MulDiv(car.tires[i].normalLoad, car.longitudinalGripCoeffs[i], U)),
             Quot(Abs(car.tires[i].combinedForce[2]) * U,
                  MulDiv(car.tires[i].normalLoad, car.lateralGripCoeffs[i], U)))
         <= U + EllipseEps

\* C9: after every update tick each of the four wheels' stored combined force
\* satisfies (Flong/FlongMax)^2 + (Flat/FlatMax)^2 <= 1 + epsilon, FlongMax and
\* FlatMax being grip coefficient times normal load; a wheel without load
\* carries no force; the front wheels are included.
C9_FrictionEllipse == updates > 0 => \A i \in 1..4 : WheelWithinEllipse(i)

\* the brake is held from rest with no throttle and no steering, and nothing
\* else has been touched
BrakeHoldFromRest ==
  changes = 0 /\ held = [throttle |-> 0, brake |-> U, steer |-> 0]

\* C10: with the brake held from rest and zero throttle, a vehicle that stands
\* at (0,0) with the brake engaged stays at (0,0) over the next update tick:
\* the held brake does not set the stopped vehicle moving again.
C10_BrakeHoldsAtRest ==
  [][(BrakeHoldFromRest /\ car.velocity = <<0, 0>> /\ car.brake > U \div 10
        /\ updates' = updates + 1)
       => car'.velocity = <<0, 0>>]_vars

(***************************************************************************)
(* Properties of runCalibration, checked under SpecCal                     *)
(***************************************************************************)
\* runCalibration has returned a record
Returned == cal.pc = "done" /\ ~IsNone(calResult)

\* the vehicle being calibrated has a performance target: some container of its
\* spec holds a finite positive number under a recognized key
RecognizedKeys ==
  {TopSpeedKeys[i] : i \in 1..Len(TopSpeedKeys)}
    \cup {TopSpeedMphKeys[i] : i \in 1..Len(TopSpeedMphKeys)}
    \cup {ZeroToHundredKeys[i] : i \in 1..Len(ZeroToHundredKeys)}
    \cup {ZeroToSixtyKeys[i] : i \in 1..Len(ZeroToSixtyKeys)}
HasPerformanceField(spec) ==
  \E key \in RecognizedKeys :
    \E container \in {Some(spec.own), spec.performance, spec.realWorld, spec.stats} :
      ~IsNone(AcceptedAt(container, key))

\* the final measured metric of every active target is within its tolerance
FinalMetricsWithinTolerance(record) ==
  /\ ~IsNone(The(record.target).zeroToHundredSec) =>
       /\ ~IsNone(The(record.measured).zeroToHundredSec)
       /\ Abs(The(The(record.measured).zeroToHundredSec)
                - The(The(record.target).zeroToHundredSec)) * 100
            <= 4 * The(The(record.target).zeroToHundredSec)
  /\ ~IsNone(The(record.target).topSpeedKph) =>
       /\ ~IsNone(The(record.measured).topSpeedKph)
       /\ Abs(The(The(record.measured).topSpeedKph)
                - The(The(record.target).topSpeedKph)) * 100
            <= 3 * The(The(record.target).topSpeedKph)

\* C1: a record returned for a vehicle with a target is either verified with
\* every active target's final measured metric within tolerance (0-100 within
\* 4%, top speed within 3%), or unverified with a timeout note; running out of
\* rounds without reaching tolerance never gives verified = true.
C1_VerifiedMeansWithinTolerance ==
  (Returned /\ HasPerformanceField(Catalog[cal.carId])) =>
    IF The(calResult).verified
    THEN FinalMetricsWithinTolerance(The(calResult))
    ELSE MentionsTimedOut(The(calResult).note)

\* the Car constructor accepts the vehicle's config
WellFormed(id) == ~CarConstructorThrows(createCarConfigFromSpec(Catalog[id], FALSE, None))

\* C2: a call with timeoutMs = 0 on a vehicle with targets, and any call in
\* which a deadline check (at the top of a round or inside a measurement) saw
\* the deadline exceeded, returns verified = false with a note containing
\* "timed out", and does not throw.
C2_DeadlineSeenMeansTimedOut ==
  (cal.pc \in {"done", "thrown"} /\ HasPerformanceField(Catalog[cal.carId])
     /\ WellFormed(cal.carId) /\ (cal.timeoutMs = 0 \/ obs.sawDeadline)) =>
    /\ Returned
    /\ The(calResult).verified = FALSE
    /\ MentionsTimedOut(The(calResult).note)

\* C5: for a spec without a recognized performance field the call returns at
\* once with verified = true, iterations = 0, overrides = null and a note
\* containing "skipped"; no test car is constructed and no tick is simulated.
C5_NoTargetsSkips ==
  (cal.pc # "idle" /\ ~HasPerformanceField(Catalog[cal.carId])) =>
    /\ Returned
    /\ The(calResult).verified = TRUE
    /\ The(calResult).iterations = Some(0)
    /\ IsNone(The(calResult).overrides)
    /\ MentionsSkipped(The(calResult).note)
    /\ ~obs.carBuilt /\ ~obs.ticked /\ IsNone(testCar)

C5_Witness == Returned /\ cal.carId = "plain" /\ ~HasPerformanceField(specs["plain"])

\* the tuning values of a spec
TuningValues(spec) ==
  <<spec.dragCoefficient, spec.rollingResistanceCoeff, spec.drivetrainEfficiency,
    spec.calibrationOverrides>>

RoundWithinTolerance ==
  /\ ~IsNone(cal.targets.zeroToHundredSec) =>
       /\ ~IsNone(cal.measuredZero.timeSec)
       /\ Abs(The(cal.measuredZero.timeSec) - The(cal.targets.zeroToHundredSec)) * 100
            <= 4 * The(cal.targets.zeroToHundredSec)
  /\ ~IsNone(cal.targets.topSpeedKph) =>
       /\ ~IsNone(cal.measuredTop.maxSpeedKph)
       /\ Abs(The(cal.measuredTop.maxSpeedKph) - The(cal.targets.topSpeedKph)) * 100
            <= 3 * The(cal.targets.topSpeedKph)

\* the steps that belong to a measure/adjust round
InRound == cal.pc \in {"accel", "checkAccel", "top", "checkTop", "roundEnd"}

\* at most maxIterations rounds are begun, a round whose targets are all within
\* tolerance has adjusted nothing, and the rounds are over once the loop is left
C7_RoundsBounded ==
  /\ cal.index <= cal.maxIterations
  /\ cal.actualIterations <= cal.maxIterations
  /\ Returned => The(The(calResult).iterations) <= cal.maxIterations
  /\ (cal.pc = "roundEnd" /\ RoundWithinTolerance) =>
       cfgHeap[cal.workingConfig] = The(obs.roundConfig)
  /\ cal.final => ~InRound /\ cal.pc # "loop"

\* a round within tolerance is the last one, a round-top check that finds the
\* deadline exceeded starts no round, and no round follows the loop
C7_NoFurtherRound ==
  /\ (cal.pc = "roundEnd" /\ RoundWithinTolerance /\ cal' # cal) => cal'.final
  /\ (cal.pc = "loop" /\ pastDeadline /\ cal' # cal) => cal'.final
  /\ cal.final =>
       cal'.final /\ cal'.index = cal.index /\ cal'.actualIterations = cal.actualIterations

\* how far a call has come: the block (a round, the final measurements, the
\* return), the position in the block, the ticks of the measurement in
\* progress, and whether the deadline has passed
PhaseRank ==
  CASE cal.pc \in {"idle", "done", "thrown"} -> 0
    [] cal.pc \in {"loop", "finalZero"} -> 1
    [] cal.pc = "accel" -> 2
    [] cal.pc = "measureZero" -> 3
    [] cal.pc \in {"checkAccel", "finalTop"} -> 4
    [] cal.pc = "top" -> 5
    [] cal.pc = "measureTop" -> 6
    [] cal.pc \in {"checkTop", "finish"} -> 7
    [] OTHER -> 8
Block ==
  IF cal.pc = "idle" THEN 0
  ELSE IF cal.pc \in {"done", "thrown"} THEN cal.maxIterations + 2
  ELSE IF cal.final THEN cal.maxIterations + 1
  ELSE cal.index
Progress ==
  2 * ((Block * 9 + PhaseRank) * (TopMaxTicks + 1) + meas.time)
    + (IF pastDeadline THEN 1 ELSE 0)

\* every step of a call, and every tick of the clock, brings the call nearer
\* to its return
C7_Progresses == Progress' > Progress

\* a call that has not returned or thrown stands at a step it can take: each
\* position has its step, and a measurement loop has its test car
C7_NeverStuck ==
  /\ cal.pc \in {"idle", "loop", "accel", "measureZero", "checkAccel", "top",
                 "measureTop", "checkTop", "roundEnd", "finalZero", "finalTop",
                 "finish", "done", "thrown"}
  /\ cal.pc \in {"measureZero", "measureTop"} => ~IsNone(testCar)
  /\ cal.pc \notin {"idle", "done", "thrown"} => cfgHeap # <<>>
  /\ Progress <= 2 * ((MaxRounds + 3) * 9 * (TopMaxTicks + 1)) + 1

\* C7: runCalibration always terminates (every step brings it nearer to its
\* return and it is never stuck); it begins at most maxIterations
\* measure/adjust rounds (record.iterations <= maxIterations), stops at the
\* first round in which every active target is within tolerance, adjusting
\* nothing in that round, and starts no further round once a round-top check
\* finds the deadline exceeded.
C7_Terminates ==
  /\ [](C7_RoundsBounded /\ C7_NeverStuck)
  /\ [][C7_NoFurtherRound /\ C7_Progresses]_vars

\* a call that adjusted in its first round and stopped at its second, the
\* first within tolerance
C7_Witness ==
  /\ Returned
  /\ cal.maxIterations = 2 /\ cal.index = 1 /\ cal.actualIterations = 2
  /\ cal.accelClose /\ cal.topClose /\ ~cal.timedOut

(***************************************************************************)
(* Properties of verifyAllCars, checked under SpecVerify                   *)
(***************************************************************************)
\* this step is a pass of the scan loop, over the car Scanned
ScanStep == batch.pc = "scan" /\ batch.scanIdx <= Len(batch.cars) /\ batch' # batch
Scanned == batch.cars[batch.scanIdx]

\* the record stored for the scanned car has the current version and is
\* verified, and the car's spec carries the flag
RecordAndFlagGood ==
  /\ Scanned \in DOMAIN manager.records
  /\ manager.records[Scanned].version = CAR_VERIFICATION_VERSION
  /\ manager.records[Scanned].verified = TRUE
  /\ specs[Scanned].performanceVerified = Some(TRUE)

\* the scan step leaves the scanned car's record as it is and does not queue it
KeptAsIs ==
  /\ Scanned \in DOMAIN manager.records
  /\ manager'.records = manager.records
  /\ batch'.pending = batch.pending

\* the scan step queues the scanned car and stores nothing for it
Queued ==
  /\ batch'.pending = Append(batch.pending, Scanned)
  /\ manager'.records = manager.records

\* a step of a batch stores a verified record for car id that was not there before
StoresVerified(id) ==
  /\ batch.pc \notin {"idle", "returned"}
  /\ id \in DOMAIN manager'.records
  /\ manager'.records[id].verified = TRUE
  /\ MapGet(manager'.records, id) # MapGet(manager.records, id)

TrustedFlag ==
  /\ batch'.pending = batch.pending
  /\ StoresVerified(Scanned)
  /\ manager'.records[Scanned].note = Some(FlagNote)
  /\ \A id \in CarIds \ {Scanned} :
       MapGet(manager'.records, id) = MapGet(manager.records, id)

C4_CacheHitIsIdempotent ==
  \A id \in CarIds :
    (batch.pc # "idle" /\ manager.initialized /\ ~IsNone(obs.recordsAtStart)
       /\ id \in DOMAIN The(obs.recordsAtStart)
       /\ The(obs.recordsAtStart)[id].version = CAR_VERIFICATION_VERSION
       /\ The(obs.recordsAtStart)[id].verified = TRUE
       /\ \E i \in 1..Len(batch.cars) : batch.cars[i] = id) =>
      /\ id \notin obs.tickedIds
      /\ manager.records[id] = The(obs.recordsAtStart)[id]

\* this step stores the outcome of a runCalibration call that threw or
\* returned an unverified record
FailureStored ==
  /\ batch.pc = "calibrating" /\ batch' # batch
  /\ cal.pc = "thrown" \/ (Returned /\ The(calResult).verified # TRUE)

\* C8: when runCalibration for a pending vehicle throws or returns an
\* unverified record, a verified = false record is stored for the vehicle and
\* its spec is flagged unverified, the loop goes on to the next pending vehicle
\* if there is one, and every pending vehicle of a batch has been handed to
\* runCalibration when the batch returns.
C8_FailureDoesNotAbort ==
  /\ [][FailureStored =>
          /\ manager'.records[cal.carId].verified = FALSE
          /\ specs'[cal.carId].performanceVerified = Some(FALSE)
          /\ batch'.pc = "process" \/ batch.processed = Len(batch.pending)]_vars
  /\ [](batch.pc = "returned" =>
          \A i \in 1..Len(batch.pending) : batch.pending[i] \in obs.calibrated)

\* a batch in which the first pending vehicle threw and a later one was then
\* measured
C8_Witness ==
  /\ batch.pc = "returned" /\ Len(batch.pending) >= 2
  /\ batch.pending[1] = "broken"
  /\ "broken" \in DOMAIN manager.records
  /\ manager.records["broken"].verified = FALSE
  /\ ~IsNone(manager.records["broken"].error)
  /\ batch.pending[2] \in obs.tickedIds

ShiftCalled == probe' # probe /\ probe'.fn \in {"shiftUp", "shiftDown"}

\* the number of forward ratios of the car's gearbox
ForwardRatios == Len(car.config.gearRatios) - 1

\* what a call of shiftUp or shiftDown did, in manual mode
ManualShiftByOne ==
  LET returned == probe'.out[1]
      step == IF probe'.fn = "shiftUp" THEN 1 ELSE -1
      atBound == IF probe'.fn = "shiftUp" THEN car.gearIndex = ForwardRatios
                 ELSE car.gearIndex = -1
  IN  /\ returned => /\ car'.gearIndex = car.gearIndex + step
                     /\ car'.reverseMode <=> car'.gearIndex = -1
      /\ car'.gearIndex \in -1..ForwardRatios
      /\ atBound <=> ~returned
      /\ ~returned => car' = car

\* what a call of shiftUp or shiftDown did, in automatic mode
AutomaticShiftRefused ==
  /\ probe'.out[1] = FALSE
  /\ car'.gearIndex = car.gearIndex
  /\ car'.reverseMode = car.reverseMode

\* C12: in manual mode a shift that returns true moves gearIndex by exactly one
\* step and leaves reverseMode true exactly when gearIndex is -1, gearIndex
\* stays within [-1, N], and a shift at a bound returns false and changes
\* nothing; in automatic mode a shift returns false and leaves gearIndex and
\* reverseMode as they were
C12_ShiftsByOneWithinBounds ==
  /\ [](car.manualMode => car.gearIndex \in -1..ForwardRatios)
  /\ [][ShiftCalled => IF car.manualMode THEN ManualShiftByOne
                       ELSE AutomaticShiftRefused]_vars

\* the six-speed car has been shifted up to its top gear and a further shiftUp
\* has been refused
C12_Witness ==
  /\ car.manualMode
  /\ probe.fn = "shiftUp"
  /\ probe.arg[1] = 6
  /\ probe.out = <<FALSE>>
  /\ car.gearIndex = 6


\* C13: after every update tick the heading lies in (-pi, pi], whatever the
\* heading before the tick and the sign of the angular velocity
C13_HeadingNormalized ==
  probe.fn = "update" => -PI < car.heading /\ car.heading <= PI


\* C14: in every state of a car, after its construction and after every
\* update, resetState and restoreState, idleRpm <= engineRpm <= 1.05 * revLimiterRpm
C14_EngineRpmWithinLimits ==
  /\ car.idleRpm <= car.engineRpm
  /\ car.engineRpm * 100 <= car.revLimiterRpm * 105


\* a step in which update was called on a car in automatic mode
AutomaticUpdate == probe' # probe /\ probe'.fn = "update" /\ ~car.manualMode

\* the longitudinal speed at which update was called is below 0.6 m/s
BelowReverseSpeed == Abs(Kinematics(car).vLong) < 600000

\* C20: in automatic mode update switches reverseMode from false to true only
\* at |vLong| < 0.6 m/s with the smoothed throttle below -0.1, and never in a
\* tick that started from zero throttle; it switches from true to false only
\* at |vLong| < 0.6 m/s with the smoothed throttle above 0.1
C20_ReverseNeedsSustainedIntent ==
  [][AutomaticUpdate =>
       /\ ~car.reverseMode /\ car'.reverseMode =>
            /\ BelowReverseSpeed
            /\ car'.throttle < -1000
            /\ car.throttle # 0
       /\ car.reverseMode /\ ~car'.reverseMode =>
            /\ BelowReverseSpeed
            /\ car'.throttle > 1000
       /\ ~BelowReverseSpeed => car'.reverseMode = car.reverseMode]_vars


\* the scalar numeric fields of a config that are plain numbers
ScalarFields ==
  { "massKg", "finalDriveRatio", "horsepower", "peakTorqueNm", "dragCoefficient",
    "downforceCoefficient", "frontalAreaM2", "wheelRadiusM", "wheelbaseM", "cgHeightM",
    "trackWidthM", "frontWeightDistribution", "drivetrainEfficiency",
    "rollingResistanceCoeff", "brakeBiasFront" }

\* C15: every scalar numeric field of the config createCarConfigFromSpec
\* returns is finite, a spec value that is absent or not finite having been
\* replaced by the default
C15_ScalarsFinite ==
  probe.fn = "createCarConfigFromSpec" =>
    /\ \A field \in ScalarFields : isFinite(probe.out[1][field])
    /\ ~IsNone(probe.out[1].revLimiterRpm)
    /\ isFinite(The(probe.out[1].revLimiterRpm))


\* the spec fields that feed the four-entry arrays of a config
GripFields == {"tireGrips", "tireGripLat", "brakeTorquePerWheelNm"}

\* the array of the probed config that a grip field of the spec feeds
ArrayFor(field) ==
  IF field = "tireGripLat" THEN The(probe.out[1].tireLateralGrips)
  ELSE probe.out[1][field]

\* the array fed by a field repeats the sequence given, entry i being given[i mod k]
RepeatsModulo(field, given) ==
  Len(given) \in 1..3 =>
    \A i \in 0..3 : ArrayFor(field)[i + 1] = given[(i % Len(given)) + 1]

\* gearRatios[0] is 0, a 0 having been prepended where the spec's ratios do
\* not start with one
StartsWithZero(ratios, result) ==
  /\ result[1] = 0
  /\ ~IsNone(ratios) /\ The(ratios) # <<>> /\ The(ratios)[1] # 0
       => result = <<0>> \o The(ratios)

\* what C16 says of the config but for the entries repeated
FourEntriesAndZeroFirst ==
  /\ probe.fn = "createCarConfigFromSpec" =>
       /\ \A field \in GripFields : Len(ArrayFor(field)) = 4
       /\ StartsWithZero(probe.arg[1].gearRatios, probe.out[1].gearRatios)
  /\ probe.fn = "ensureGearRatios" =>
       /\ StartsWithZero(probe.arg[1], probe.out[1])
       /\ probe.out[2] = probe.out[1]

ValuesUnder(spec, keys) ==
  LET containers == <<Some(spec.own), spec.performance, spec.realWorld, spec.stats>>
  IN  { The(The(containers[c])[keys[k]]) :
          <<c, k>> \in { p \in (1..4) \X (1..Len(keys)) :
                           /\ ~IsNone(containers[p[1]])
                           /\ keys[p[2]] \in DOMAIN The(containers[p[1]])
                           /\ ~IsNone(The(containers[p[1]])[keys[p[2]]])
                           /\ The(The(containers[p[1]])[keys[p[2]]]) > 0 } }

\* a target is one of the values given directly or, with none of those, one
\* of the values to convert multiplied by the factor (in 1/100000)
TargetFrom(target, direct, converted, factor) ==
  IF direct # {} THEN ~IsNone(target) /\ The(target) \in direct
  ELSE IF converted # {}
    THEN /\ ~IsNone(target)
         /\ \E v \in converted :
              Abs((The(target) - v) * 50000 - v * ((factor - 100000) \div 2)) <= 25000
  ELSE IsNone(target)

\* C18: extractTargets returns null exactly when no recognized key holds a
\* finite positive number in the spec or its performance, realWorld or stats
\* object; otherwise a km/h or 0-100 value given directly is taken before a
\* converted one, a top speed given only in mph is multiplied by 1.60934 and a
\* time given only as 0-60 mph by 1.05
C18_TargetsExtracted ==
  probe.fn = "extractTargets" =>
    LET spec == probe.arg[1]
        targets == probe.out[1]
    IN  /\ IsNone(targets) <=>
             /\ ValuesUnder(spec, TopSpeedKeys) = {}
             /\ ValuesUnder(spec, TopSpeedMphKeys) = {}
             /\ ValuesUnder(spec, ZeroToHundredKeys) = {}
             /\ ValuesUnder(spec, ZeroToSixtyKeys) = {}
        /\ ~IsNone(targets) =>
             /\ TargetFrom(The(targets).topSpeedKph, ValuesUnder(spec, TopSpeedKeys),
                           ValuesUnder(spec, TopSpeedMphKeys), 160934)
             /\ TargetFrom(The(targets).zeroToHundredSec, ValuesUnder(spec, ZeroToHundredKeys),
                           ValuesUnder(spec, ZeroToSixtyKeys), 105000)

\* a spec with a top speed of 155 mph, a direct top speed that is not a
\* number, and 0-60 mph times only, the one in its stats under the earlier
\* key: 249.45 km/h and 6.3 s
C18_Witness ==
  /\ probe.fn = "extractTargets"
  /\ DOMAIN probe.arg[1].own = {"topSpeedKph", "topSpeedMph", "zeroTo60"}
  /\ probe.arg[1].own["topSpeedKph"] = NotANumber
  /\ ~IsNone(probe.arg[1].stats)
  /\ DOMAIN The(probe.arg[1].stats) = {"topSpeedMPH", "zeroToSixty"}
  /\ probe.out[1] = Some([topSpeedKph |-> Some(24945), zeroToHundredSec |-> Some(6300)])


\* an adjustment was called with a measured and a target value, both positive
Adjusted(fn) ==
  /\ probe.fn = fn
  /\ ~IsNone(probe.arg[2]) /\ ~IsNone(probe.arg[3])
  /\ The(probe.arg[2]) > 0 /\ The(probe.arg[3]) > 0

\* C19: each adjustment moves the coefficients towards a smaller error: with
\* a measured 0-100 time longer than the target adjustAcceleration neither
\* lowers drivetrainEfficiency nor raises rollingResistanceCoeff, with a
\* shorter one it neither raises the one nor lowers the other; with a
\* measured top speed above the target adjustTopSpeed does not lower
\* dragCoefficient, with one below it does not raise it
C19_AdjustmentsReduceError ==
  LET before == probe.arg[1]
      after == probe.out[1]
      measured == The(probe.arg[2])
      target == The(probe.arg[3])
  IN  /\ Adjusted("adjustAcceleration") =>
           /\ measured > target =>
                /\ after.drivetrainEfficiency >= before.drivetrainEfficiency
                /\ after.rollingResistanceCoeff <= before.rollingResistanceCoeff
           /\ measured < target =>
                /\ after.drivetrainEfficiency <= before.drivetrainEfficiency
                /\ after.rollingResistanceCoeff >= before.rollingResistanceCoeff
      /\ Adjusted("adjustTopSpeed") =>
           /\ measured > target => after.dragCoefficient >= before.dragCoefficient
           /\ measured < target => after.dragCoefficient <= before.dragCoefficient


\* the store holds nothing usable for a car: its text is not valid JSON or
\* not an object, or the car's entry is missing, not an object, of another
\* version or not verified
CacheMiss(id) ==
  \/ IsNone(storage.raw)
  \/ The(storage.raw).json # "object"
  \/ id \notin DOMAIN The(storage.raw).entries
  \/ ~isObjectEntry(The(storage.raw).entries[id])
  \/ The(storage.raw).entries[id].version # CAR_VERIFICATION_VERSION
  \/ The(storage.raw).entries[id].verified # TRUE

\* the manager holds a record for the car that counts as current
HeldAsCurrent(m, id) ==
  /\ id \in DOMAIN m.records
  /\ m.records[id].version = CAR_VERIFICATION_VERSION
  /\ m.records[id].verified = TRUE

UpdateCalled == updates' = updates + 1 /\ probe'.fn = "update"

\* the gear the claim gives an automatic car going forward, from the engine
\* speed and the throttle the tick ended with
ShiftedByRevs ==
  LET up == car'.engineRpm > car.upshiftRpm /\ car.gearIndex < ForwardRatios
      down == /\ ~up
              /\ car'.engineRpm < car.downshiftRpm
              /\ car.gearIndex > 1
              /\ car'.throttle < 8000
  IN  car'.gearIndex = IF up THEN car.gearIndex + 1
                       ELSE IF down THEN car.gearIndex - 1
                       ELSE car.gearIndex

C26_AutomaticInForwardGear ==
  ~car.manualMode =>
    /\ car.gearIndex \in 1..ForwardRatios
    /\ ~car.reverseMode => GearRatioAt(car.config, car.gearIndex) > 0


\* a call of update at a speed below 0.2 m/s that ends with the throttle
\* magnitude under 0.05 and the brake level under 0.1
SlowCoastingTick ==
  /\ UpdateCalled
  /\ Kinematics(car).speed < 200000
  /\ Abs(car'.throttle) < 500
  /\ car'.brake < 1000

\* C22: a tick in which speed, throttle magnitude and brake level are all under
\* their thresholds damps the velocity: it leaves the car at exactly (0,0) or
\* at no more than half the speed it had
C22_SlowCoastingSettles ==
  [][SlowCoastingTick =>
       \/ car'.velocity = <<0, 0>>
       \/ 2 * Kinematics(car').speed <= Kinematics(car).speed]_vars

\* the three tuned parameters of a config are inside their ranges
WithinTuningRanges(config) ==
  /\ config.dragCoefficient \in 160000..900000
  /\ config.drivetrainEfficiency \in 600000..1000000
  /\ config.rollingResistanceCoeff \in 4500..30000

\* a measured or target value that is not finite or not positive
Unusable(value) == IsNone(value) \/ The(value) <= 0

MeasurementPass == cal.pc \in {"measureZero", "measureTop"} /\ cal' # cal

\* the ticks executed so far by the running measurement are within the claim's
\* caps of 15 s and 160 s at 200 ticks per second
WithinTickCaps ==
  /\ cal.pc = "measureZero" => meas.time <= 15 * 200
  /\ cal.pc = "measureTop" => meas.time <= 160 * 200

\* a pass that finds the deadline exceeded executes no tick and returns the
\* aborted result
DeadlineEndsMeasurement ==
  (MeasurementPass /\ pastDeadline) =>
    /\ testCar' = None
    /\ cal'.pc \notin {"measureZero", "measureTop"}
    /\ (cal.pc = "measureZero" /\ meas.time < 15 * 200) =>
         cal'.measuredZero = [timeSec |-> None, reached |-> FALSE]
    /\ cal.pc = "measureTop" =>
         cal'.measuredTop.maxSpeedKph = Some(meas.maxSpeed)

\* C23 in part: the deadline is checked before every tick, and no tick follows
\* a check that found it exceeded
C23_DeadlineChecked == [][DeadlineEndsMeasurement]_vars

\* C23: measureZeroToHundred executes at most 3000 ticks and measureTopSpeed at
\* most 32000; neither executes a tick after a check found the deadline
\* exceeded, each returning its aborted result instead
C23_MeasurementsBounded ==
  /\ []WithinTickCaps
  /\ [][DeadlineEndsMeasurement]_vars

\* the record the manager holds for a car is of the current version and verified
CurrentAndVerified(id) ==
  /\ id \in DOMAIN manager.records
  /\ manager.records[id].version = CAR_VERIFICATION_VERSION
  /\ manager.records[id].verified = TRUE

\* C25: once the store is loaded, between verifyAllCars runs, getOverrides(id)
\* is non-null only if the manager's record for id has the current version and
\* verified = true, and then it is that record's overrides
C25_OverridesOnlyFromVerified ==
  (manager.initialized /\ batch.pc \in {"idle", "returned"}) =>
    \A id \in CarIds :
      ~IsNone(getOverrides(id)) =>
        /\ CurrentAndVerified(id)
        /\ getOverrides(id) = manager.records[id].overrides

\* C28: under a limit L, clamped to at least 0, one verifyAllCars call invokes
\* runCalibration on at most L vehicles, and on none when L is 0
C28_AtMostLimitCalibrated ==
  ~IsNone(batch.limit) => Cardinality(obs.calibrated) <= The(batch.limit)

\* runCalibration is entered
CalibrationBegins == cal.pc = "idle" /\ cal'.pc # "idle"

\* the car now calibrated comes after every car calibrated before it in this
\* call, in the order of the cars handed to verifyAllCars
InListOrder ==
  \A done \in obs.calibrated :
    \E i, j \in 1..Len(batch.cars) :
      batch.cars[i] = done /\ batch.cars[j] = cal'.carId /\ i < j

Examined ==
  IF batch.pending # <<>> /\ LimitReached(Len(batch.pending))
  THEN LET last == CHOOSE i \in 1..Len(batch.cars) :
                     batch.cars[i] = batch.pending[Len(batch.pending)]
       IN  {batch.cars[i] : i \in 1..last}
  ELSE {batch.cars[i] : i \in 1..Len(batch.cars)}

\* spec.performanceVerified is true exactly when the record is verified
FlagAgreesWithRecord(id) ==
  isSpecMarkedVerified(specs[id]) <=>
    (id \in DOMAIN manager.records /\ manager.records[id].verified = TRUE)

FlagsAgree == \A id \in Examined : FlagAgreesWithRecord(id)

\* C27: when verifyAllCars returns, every car it examined has
\* spec.performanceVerified equal to (records[id].verified === true)
C27_FlagMatchesRecord ==
  [][(batch.pc # "returned" /\ batch'.pc = "returned") => FlagsAgree']_vars

\* a call has returned after one calibration that verified its car and one
\* that ran to the end without verifying it
C27_Witness ==
  /\ batch.pc = "returned"
  /\ FlagsAgree
  /\ \E a, b \in obs.calibrated \cap DOMAIN manager.records :
       /\ manager.records[a].verified = TRUE
       /\ isSpecMarkedVerified(specs[a])
       /\ manager.records[b].verified = FALSE
       /\ IsNone(manager.records[b].error)
       /\ ~isSpecMarkedVerified(specs[b])

(***************************************************************************)
(* Game: the mode and the player, leaving and entering the vehicle         *)
(***************************************************************************)
\* mode is "driving" exactly when the player is attached and not active, and
\* "onFoot" exactly when the player is active and detached
ModeMatchesPlayer ==
  /\ game.mode \in {"driving", "onFoot"}
  /\ (game.mode = "driving") <=> (game.attachedVehicle = "vehicle" /\ ~game.active)
  /\ (game.mode = "onFoot") <=> (game.active /\ game.attachedVehicle = "null")

\* a step in which the player leaves or enters the vehicle
LeavesOrEnters == game'.mode # game.mode

\* the vehicle was slower than 10 px/s before the step
WasSlow == getSpeedPixelsPerSecond(car) < 10 * 1000000

\* the vehicle is at rest once the step has handled the key, the button or the save
StopsVehicle == probe'.out[1] = <<0, 0>>

\* the step is a frame that consumed the interact key
ByInteract == probe'.fn = "loop" /\ probe'.arg[1] = "interact"

\* the step is resetVehicle, from the reset key of a frame or from the button
ByReset == \/ probe'.fn = "loop" /\ probe'.arg[1] = "reset"
           \/ probe'.fn = "resetVehicle"

\* C30 as stated: in every reachable Game state mode is "driving" exactly when
\* the player is attached and inactive and "onFoot" exactly when the player is
\* active and detached; and every step that leaves or enters the vehicle
\* starts below 10 px/s and stops the vehicle
C30_ModeMatchesAndSlowStop ==
  []ModeMatchesPlayer /\ [][LeavesOrEnters => WasSlow /\ StopsVehicle]_vars

\* C30 amended: the mode matches the player in every reachable state; the
\* interact key leaves or enters the vehicle only below 10 px/s and stops the
\* vehicle; resetVehicle enters at any speed and leaves the vehicle at rest;
\* nothing else but applySaveState, which checks no speed and stops nothing,
\* leaves or enters the vehicle
C30_ModeMatchesInteractSlowStop ==
  /\ []ModeMatchesPlayer
  /\ [][LeavesOrEnters =>
          \/ ByInteract /\ WasSlow /\ StopsVehicle
          \/ ByReset /\ game'.mode = "driving" /\ StopsVehicle
          \/ probe'.fn = "applySaveState"]_vars

\* the interact key has just let the player out of a vehicle slower than 10 px/s
\* that had been driven, and the vehicle was stopped
C30_Witness ==
  /\ probe.fn = "loop" /\ probe.arg[1] = "interact"
  /\ probe.arg[2] > 0 /\ probe.arg[2] < 10 * 1000000
  /\ probe.out[1] = <<0, 0>>
  /\ game.mode = "onFoot" /\ game.active /\ game.attachedVehicle = "null"

====
